---------------------------- MODULE Spec2Model ----------------------------
(***************************************************************************)
(* A model of git-report (src/main.go): the path matcher matchPath, the    *)
(* git-log parser parseGitLog, the aggregation of component contributions  *)
(* and main's sequencing of them over a transactional store.               *)
(*                                                                         *)
(* Strings are sequences of one-character strings: "a/b" is <<"a","/","b">>.*)
(***************************************************************************)
EXTENDS Integers, Sequences, FiniteSets, TLC

(***************************************************************************)
(* Bounds of the model.                                                    *)
(***************************************************************************)
\* longest path handed to matchPath
MaxPathLen == 3
\* longest pattern handed to matchPath
MaxPatLen == 4
\* longest path and pattern where the patterns are long enough for a "**"
\* between a prefix and a suffix
MaxSegmentPathLen == 4
MaxSegmentPatLen == 6

(***************************************************************************)
(* Go's strings package, on sequences of characters.                       *)
(***************************************************************************)
\* strings.HasPrefix
HasPrefix(s, prefix) ==
    /\ Len(prefix) <= Len(s)
    /\ SubSeq(s, 1, Len(prefix)) = prefix

\* strings.HasSuffix
HasSuffix(s, suffix) ==
    /\ Len(suffix) <= Len(s)
    /\ SubSeq(s, Len(s) - Len(suffix) + 1, Len(s)) = suffix

\* strings.Index, 1-based; 0 when substr does not occur in s
Index(s, substr) ==
    LET hits == {i \in 1..(Len(s) - Len(substr) + 1) :
                    SubSeq(s, i, i + Len(substr) - 1) = substr}
    IN IF hits = {} THEN 0 ELSE CHOOSE i \in hits : \A j \in hits : i <= j

\* strings.Contains
Contains(s, substr) == Index(s, substr) # 0

\* strings.TrimPrefix: one leading occurrence of prefix removed
TrimPrefix(s, prefix) ==
    IF HasPrefix(s, prefix) THEN SubSeq(s, Len(prefix) + 1, Len(s)) ELSE s

\* strings.TrimSuffix: one trailing occurrence of suffix removed
TrimSuffix(s, suffix) ==
    IF HasSuffix(s, suffix) THEN SubSeq(s, 1, Len(s) - Len(suffix)) ELSE s

\* strings.Split(s, sep) for a non-empty sep: cut at every occurrence of sep,
\* found left to right without overlap
RECURSIVE Split(_, _)
Split(s, sep) ==
    LET i == Index(s, sep)
    IN IF i = 0 THEN <<s>>
       ELSE <<SubSeq(s, 1, i - 1)>> \o Split(SubSeq(s, i + Len(sep), Len(s)), sep)

\* the code point of a character (the characters the model uses)
CharCode(c) ==
    CASE c = "$" -> 36
      [] c = "*" -> 42
      [] c = "-" -> 45
      [] c = "." -> 46
      [] c = "/" -> 47
      [] c = "?" -> 63
      [] c = "[" -> 91
      [] c = "\\" -> 92
      [] c = "]" -> 93
      [] c = "^" -> 94
      [] c = "a" -> 97
      [] c = "b" -> 98
      [] c = "c" -> 99
      [] OTHER -> 120

(***************************************************************************)
(* path/filepath.Match of the Go standard library (Unix), which matchPath  *)
(* calls for a pattern with a single star.  A result is                    *)
(* [matched, err]; err stands for ErrBadPattern.                           *)
(***************************************************************************)
\* scanChunk's scan: the 1-based position of the first star outside a
\* character class at or after i, Len(p) + 1 when there is none
RECURSIVE ScanEnd(_, _, _)
ScanEnd(p, i, inrange) ==
    IF i > Len(p) THEN i
    ELSE CASE p[i] = "\\" -> ScanEnd(p, IF i < Len(p) THEN i + 2 ELSE i + 1, inrange)
           [] p[i] = "[" -> ScanEnd(p, i + 1, TRUE)
           [] p[i] = "]" -> ScanEnd(p, i + 1, FALSE)
           [] p[i] = "*" /\ ~inrange -> i
           [] OTHER -> ScanEnd(p, i + 1, inrange)

\* the pattern without its leading stars
RECURSIVE DropStars(_)
DropStars(p) ==
    IF p # <<>> /\ Head(p) = "*" THEN DropStars(Tail(p)) ELSE p

\* scanChunk: the leading stars, the chunk up to the next star, the rest
scanChunk(pattern) ==
    LET p == DropStars(pattern)
        e == ScanEnd(p, 1, FALSE)
    IN [star |-> pattern # <<>> /\ Head(pattern) = "*",
        chunk |-> SubSeq(p, 1, e - 1),
        rest |-> SubSeq(p, e, Len(p))]

\* getEsc: one character of a class, possibly escaped
getEsc(chunk) ==
    IF chunk = <<>> \/ Head(chunk) \in {"-", "]"}
    THEN [r |-> 0, nchunk |-> chunk, err |-> TRUE]
    ELSE LET c == IF Head(chunk) = "\\" THEN Tail(chunk) ELSE chunk
         IN IF c = <<>> THEN [r |-> 0, nchunk |-> c, err |-> TRUE]
            ELSE [r |-> CharCode(Head(c)), nchunk |-> Tail(c), err |-> Tail(c) = <<>>]

\* the "parse all ranges" loop of matchChunk's character class
RECURSIVE ClassRanges(_, _, _, _)
ClassRanges(chunk, r, match, nrange) ==
    IF chunk # <<>> /\ Head(chunk) = "]" /\ nrange > 0
    THEN [chunk |-> Tail(chunk), match |-> match, err |-> FALSE]
    ELSE LET lo == getEsc(chunk)
         IN IF lo.err THEN [chunk |-> <<>>, match |-> FALSE, err |-> TRUE]
            ELSE IF Head(lo.nchunk) = "-"
            THEN LET hi == getEsc(Tail(lo.nchunk))
                 IN IF hi.err THEN [chunk |-> <<>>, match |-> FALSE, err |-> TRUE]
                    ELSE ClassRanges(hi.nchunk, r,
                                     match \/ (lo.r <= r /\ r <= hi.r), nrange + 1)
            ELSE ClassRanges(lo.nchunk, r, match \/ lo.r = r, nrange + 1)

\* matchChunk's loop: after the match has failed the chunk is still read to
\* its end, to find a malformed pattern
RECURSIVE MatchChunkLoop(_, _, _)
MatchChunkLoop(chunk, s, failed) ==
    IF chunk = <<>>
    THEN IF failed THEN [rest |-> <<>>, ok |-> FALSE, err |-> FALSE]
         ELSE [rest |-> s, ok |-> TRUE, err |-> FALSE]
    ELSE LET f == failed \/ s = <<>>
             s1 == IF f THEN s ELSE Tail(s)
         IN CASE Head(chunk) = "[" ->
                   LET r == IF f THEN 0 ELSE CharCode(Head(s))
                       c1 == Tail(chunk)
                       negated == c1 # <<>> /\ Head(c1) = "^"
                       c2 == IF negated THEN Tail(c1) ELSE c1
                       cls == ClassRanges(c2, r, FALSE, 0)
                   IN IF cls.err THEN [rest |-> <<>>, ok |-> FALSE, err |-> TRUE]
                      ELSE MatchChunkLoop(cls.chunk, s1, f \/ cls.match = negated)
              [] Head(chunk) = "?" ->
                   MatchChunkLoop(Tail(chunk), s1, f \/ Head(s) = "/")
              [] Head(chunk) = "\\" ->
                   IF Tail(chunk) = <<>>
                   THEN [rest |-> <<>>, ok |-> FALSE, err |-> TRUE]
                   ELSE MatchChunkLoop(Tail(Tail(chunk)), s1,
                                       f \/ Head(Tail(chunk)) # Head(s))
              [] OTHER ->
                   MatchChunkLoop(Tail(chunk), s1, f \/ Head(chunk) # Head(s))

\* matchChunk: whether chunk matches at the start of s, and what of s is left
matchChunk(chunk, s) == MatchChunkLoop(chunk, s, FALSE)

\* filepath.Match's loop over the chunks of the pattern (MatchLoop), and its
\* inner loop that lets a star skip i+1 characters, never a "/" (StarSkip)
RECURSIVE MatchLoop(_, _)
RECURSIVE StarSkip(_, _, _, _)
MatchLoop(pattern, name) ==
    IF pattern = <<>> THEN [matched |-> name = <<>>, err |-> FALSE]
    ELSE LET sc == scanChunk(pattern)
             m == matchChunk(sc.chunk, name)
         IN IF sc.star /\ sc.chunk = <<>>
            THEN [matched |-> ~Contains(name, <<"/">>), err |-> FALSE]
            ELSE IF m.ok /\ (m.rest = <<>> \/ sc.rest # <<>>)
            THEN MatchLoop(sc.rest, m.rest)
            ELSE IF m.err THEN [matched |-> FALSE, err |-> TRUE]
            ELSE IF sc.star THEN StarSkip(sc.chunk, sc.rest, name, 0)
            ELSE [matched |-> FALSE, err |-> FALSE]

StarSkip(chunk, rest, name, i) ==
    IF ~(i < Len(name) /\ name[i + 1] # "/")
    THEN [matched |-> FALSE, err |-> FALSE]
    ELSE LET m == matchChunk(chunk, SubSeq(name, i + 2, Len(name)))
         IN IF m.ok
            THEN IF rest = <<>> /\ m.rest # <<>>
                 THEN StarSkip(chunk, rest, name, i + 1)
                 ELSE MatchLoop(rest, m.rest)
            ELSE IF m.err THEN [matched |-> FALSE, err |-> TRUE]
            ELSE StarSkip(chunk, rest, name, i + 1)

\* filepath.Match(pattern, name)
filepathMatch(pattern, name) == MatchLoop(pattern, name)

(***************************************************************************)
(* matchPath (src/main.go).                                                *)
(***************************************************************************)
\* the two characters "**"
DoubleStar == <<"*", "*">>

\* strings.Split(pattern, "**")
\* a faulty variant, for comparison: the pattern cut at its first "**" only
doubleStarParts_FirstOnly(pattern) ==
    LET i == Index(pattern, DoubleStar)
    IN IF i = 0 THEN <<pattern>>
       ELSE <<SubSeq(pattern, 1, i - 1), SubSeq(pattern, i + 2, Len(pattern))>>

doubleStarParts(pattern) == Split(pattern, DoubleStar)

\* a faulty variant, for comparison: "/" + suffix is not looked for inside the path
matchLeading_SuffixOnly(path, parts) ==
    LET suffix == TrimPrefix(parts[2], <<"/">>)
    IN IF suffix = <<>> THEN TRUE ELSE HasSuffix(path, suffix)

\* a faulty variant, for comparison: the suffix is also tried as a glob on the path
matchLeading_GlobSuffix(path, parts) ==
    LET suffix == TrimPrefix(parts[2], <<"/">>)
    IN IF suffix = <<>> THEN TRUE
       ELSE \/ HasSuffix(path, suffix)
            \/ Contains(path, <<"/">> \o suffix)
            \/ filepathMatch(suffix, path).matched

\* "Pattern: **/something": parts[0] == ""
matchLeading(path, parts) ==
    LET suffix == TrimPrefix(parts[2], <<"/">>)
    IN IF suffix = <<>> THEN TRUE
       ELSE HasSuffix(path, suffix) \/ Contains(path, <<"/">> \o suffix)

\* a faulty variant, for comparison: the "/" after the prefix is not asked for
matchTrailing_NoSeparator(path, parts) ==
    LET prefix == TrimSuffix(parts[1], <<"/">>)
    IN HasPrefix(path, prefix)

\* "Pattern: something/**": parts[1] == ""
matchTrailing(path, parts) ==
    LET prefix == TrimSuffix(parts[1], <<"/">>)
    IN HasPrefix(path, prefix \o <<"/">>) \/ path = prefix

\* "Pattern: prefix/**/suffix"
matchMiddle(path, parts) ==
    LET prefix == TrimSuffix(parts[1], <<"/">>)
        suffix == TrimPrefix(parts[2], <<"/">>)
    IN IF prefix # <<>> /\ ~HasPrefix(path, prefix) THEN FALSE
       ELSE IF suffix # <<>> /\ ~HasSuffix(path, suffix) THEN FALSE
       ELSE TRUE

\* a faulty variant, for comparison: the arguments of filepath.Match in the wrong order
matchSingleStar_SwappedArguments(path, pattern) == filepathMatch(path, pattern).matched

\* a faulty variant, for comparison: a pattern filepath.Match rejects counts as a match
matchSingleStar_ErrorMatches(path, pattern) ==
    filepathMatch(pattern, path).matched \/ filepathMatch(pattern, path).err

\* "Handle single *": the result of filepath.Match, its error dropped
matchSingleStar(path, pattern) == filepathMatch(pattern, path).matched

\* a faulty variant, for comparison: the test for "something/**" made before the one for "**/something"
matchPath_TrailingFirst(path, pattern) ==
    LET parts == doubleStarParts(pattern)
    IN IF path = pattern THEN TRUE
       ELSE IF Contains(pattern, DoubleStar) /\ Len(parts) = 2 /\ parts[2] = <<>>
       THEN matchTrailing(path, parts)
       ELSE IF Contains(pattern, DoubleStar) /\ Len(parts) = 2 /\ parts[1] = <<>>
       THEN matchLeading(path, parts)
       ELSE IF Contains(pattern, DoubleStar) /\ Len(parts) = 2
       THEN matchMiddle(path, parts)
       ELSE IF Contains(pattern, <<"*">>) /\ ~Contains(pattern, DoubleStar)
       THEN matchSingleStar(path, pattern)
       ELSE FALSE

\* matchPath(path, pattern)
matchPath(path, pattern) ==
    LET parts == doubleStarParts(pattern)
    IN IF path = pattern THEN TRUE
       ELSE IF Contains(pattern, DoubleStar) /\ Len(parts) = 2 /\ parts[1] = <<>>
       THEN matchLeading(path, parts)
       ELSE IF Contains(pattern, DoubleStar) /\ Len(parts) = 2 /\ parts[2] = <<>>
       THEN matchTrailing(path, parts)
       ELSE IF Contains(pattern, DoubleStar) /\ Len(parts) = 2
       THEN matchMiddle(path, parts)
       ELSE IF Contains(pattern, <<"*">>) /\ ~Contains(pattern, DoubleStar)
       THEN matchSingleStar(path, pattern)
       ELSE FALSE

(***************************************************************************)
(* matchPath and simpleMatch of the earlier source (src/README.md): the    *)
(* pattern is rewritten into the text of a regular expression, which is    *)
(* then compared with the path character by character, the function        *)
(* calling itself on what is left after a ".*" or a "[^/]*".  Go indexes a *)
(* string by bytes; the placeholder is two bytes long, and none is left    *)
(* after the third ReplaceAll when the pattern has none of its own.        *)
(***************************************************************************)
\* strings.ReplaceAll for a non-empty old: every occurrence, found left to
\* right without overlap
RECURSIVE ReplaceAll(_, _, _)
ReplaceAll(s, old, new) ==
    LET i == Index(s, old)
    IN IF i = 0 THEN s
       ELSE SubSeq(s, 1, i - 1) \o new
                \o ReplaceAll(SubSeq(s, i + Len(old), Len(s)), old, new)

\* strings.Join
RECURSIVE Join(_, _)
Join(elems, sep) ==
    IF elems = <<>> THEN <<>>
    ELSE IF Len(elems) = 1 THEN elems[1]
    ELSE elems[1] \o sep \o Join(Tail(elems), sep)

\* min(a, b)
olderMin(a, b) == IF a < b THEN a ELSE b

\* the placeholder the "**" are kept under, and the texts put for the stars
Placeholder == <<"§", "§">>
AnyText == <<".", "*">>
SegmentText == <<"[", "^", "/", "]", "*">>

\* the three strings.ReplaceAll
olderRewrite(pattern) ==
    ReplaceAll(ReplaceAll(ReplaceAll(pattern, DoubleStar, Placeholder),
                          <<"*">>, SegmentText),
               Placeholder, AnyText)

\* a faulty variant, for comparison: the pattern is not put between anchors
olderAnchored_NoAnchors(pattern) == pattern

\* pattern = "^" + pattern + "$"
olderAnchored(pattern) == <<"^">> \o pattern \o <<"$">>

\* the position the scan of "[^/]*" stops at: the first "/" of path at or
\* after i (0-based), the length of path when there is none
RECURSIVE olderSegmentEnd(_, _)
olderSegmentEnd(path, j) ==
    IF j < Len(path) /\ path[j + 1] # "/" THEN olderSegmentEnd(path, j + 1) ELSE j

\* simpleMatch's loop over the parts of the pattern; i is 0-based
RECURSIVE olderSimpleLoop(_, _, _)
olderSimpleLoop(parts, pathParts, i) ==
    IF i >= Len(parts) THEN FALSE
    ELSE IF parts[i + 1] # DoubleStar THEN olderSimpleLoop(parts, pathParts, i + 1)
    ELSE LET before == Join(SubSeq(parts, 1, i), <<"/">>)
             after == Join(SubSeq(parts, i + 2, Len(parts)), <<"/">>)
             head == Join(SubSeq(pathParts, 1, olderMin(i, Len(pathParts))), <<"/">>)
         IN IF before # <<>> /\ ~filepathMatch(before, head).matched THEN FALSE
            ELSE IF after = <<>> THEN TRUE
            ELSE IF \E j \in i..Len(pathParts) :
                       filepathMatch(after,
                           Join(SubSeq(pathParts, j + 1, Len(pathParts)), <<"/">>)).matched
            THEN TRUE
            ELSE olderSimpleLoop(parts, pathParts, i + 1)

\* simpleMatch(path, pattern) of the earlier source
olderSimpleMatch(path, pattern) ==
    IF filepathMatch(pattern, path).matched THEN TRUE
    ELSE IF Contains(pattern, DoubleStar)
    THEN olderSimpleLoop(Split(pattern, <<"/">>), Split(path, <<"/">>), 0)
    ELSE FALSE

\* matchPath(path, pattern) of the earlier source, and its loop over the
\* positions of the path and of the rewritten pattern (i is 0-based): what
\* `matched` is when the loop is left
RECURSIVE olderMatchPath(_, _)
RECURSIVE olderLoop(_, _, _)
olderLoop(path, pattern, i) ==
    IF ~(i < Len(path) /\ i < Len(pattern)) THEN FALSE
    ELSE IF i < Len(pattern) - 1 /\ pattern[i + 1] = "." /\ pattern[i + 2] = "*"
    THEN IF i = Len(pattern) - 2 THEN TRUE
         ELSE \E j \in i..Len(path) :
                 olderMatchPath(SubSeq(path, j + 1, Len(path)),
                                SubSeq(pattern, i + 3, Len(pattern)))
    ELSE IF i < Len(pattern) - 6 /\ SubSeq(pattern, i + 1, i + 5) = SegmentText
    THEN LET j == olderSegmentEnd(path, i)
         IN olderMatchPath(SubSeq(path, j + 1, Len(path)),
                           SubSeq(pattern, i + 6, Len(pattern)))
    ELSE IF path[i + 1] = pattern[i + 1]
    THEN IF i + 1 = Len(path) /\ i + 1 = Len(pattern) THEN TRUE
         ELSE olderLoop(path, pattern, i + 1)
    ELSE FALSE

olderMatchPath(path, pattern) ==
    LET p == olderAnchored(olderRewrite(pattern))
    IN \/ olderLoop(path, p, 0)
       \/ (Len(path) = 0 /\ Len(p) = 0)
       \/ olderSimpleMatch(path, p)

(***************************************************************************)
(* parseGitLog's reading of one line of `git log --numstat` output.  A     *)
(* line is a string without its line break; the delimiter byte \x00 is the *)
(* character "NUL".  The author date is kept as a single character: "T"    *)
(* stands for a text in the layout "2006-01-02 15:04:05 -0700", any other  *)
(* text is not in that layout.  The date and the message of a commit are   *)
(* stored as they are read and never read back; the model leaves them out  *)
(* of the Commit.                                                          *)
(***************************************************************************)
NUL == <<"NUL">>
TAB == <<"\t">>

\* var currentCommit *Commit = nil
NoCommit == [Hash |-> <<"nil">>, RepositoryID |-> 0, Author |-> <<>>, Email |-> <<>>]

\* a faulty variant, for comparison: the error of time.Parse is not looked at
TimeParseOK_ErrorDropped(field) == TRUE

\* time.Parse("2006-01-02 15:04:05 -0700", field) succeeds
TimeParseOK(field) == field = <<"T">>

DigitChars == {"0", "1", "2", "3", "4", "5", "6", "7", "8", "9"}

DigitVal(c) ==
    CASE c = "0" -> 0 [] c = "1" -> 1 [] c = "2" -> 2 [] c = "3" -> 3
      [] c = "4" -> 4 [] c = "5" -> 5 [] c = "6" -> 6 [] c = "7" -> 7
      [] c = "8" -> 8 [] c = "9" -> 9

RECURSIVE DigitsVal(_, _)
DigitsVal(s, acc) ==
    IF s = <<>> THEN acc ELSE DigitsVal(Tail(s), 10 * acc + DigitVal(Head(s)))

\* strconv.Atoi: an optional sign and decimal digits, an error otherwise
Atoi(s) ==
    LET signed == s # <<>> /\ Head(s) \in {"+", "-"}
        digits == IF signed THEN Tail(s) ELSE s
    IN IF digits = <<>> \/ \E i \in 1..Len(digits) : digits[i] \notin DigitChars
       THEN [val |-> 0, err |-> TRUE]
       ELSE [val |-> IF signed /\ Head(s) = "-" THEN 0 - DigitsVal(digits, 0)
                     ELSE DigitsVal(digits, 0),
             err |-> FALSE]

\* strings.Fields: the maximal runs of characters that are not white space
RECURSIVE FieldsLoop(_, _, _)
FieldsLoop(s, cur, acc) ==
    IF s = <<>> THEN (IF cur = <<>> THEN acc ELSE Append(acc, cur))
    ELSE IF Head(s) \in {" ", "\t"}
    THEN FieldsLoop(Tail(s), <<>>, IF cur = <<>> THEN acc ELSE Append(acc, cur))
    ELSE FieldsLoop(Tail(s), Append(cur, Head(s)), acc)

Fields(s) == FieldsLoop(s, <<>>, <<>>)

\* a faulty variant, for comparison: the deletions are not looked at when
\* there are additions
changeTypeOf_AdditionsFirst(adds, dels) ==
    IF adds > 0 THEN "A"
    ELSE IF dels > 0 THEN "D"
    ELSE "M"

\* the change type of a stat line that is not a rename
changeTypeOf(adds, dels) ==
    IF adds > 0 /\ dels = 0 THEN "A"
    ELSE IF adds = 0 /\ dels > 0 THEN "D"
    ELSE "M"

\* a header line (it contains the delimiter): the commit it starts, if any
parseHeader(line, repoID, current) ==
    LET parts == Split(line, NUL)
    IN IF Len(parts) < 5 THEN [commit |-> current, insert |-> "none"]
       ELSE IF ~TimeParseOK(parts[4]) THEN [commit |-> current, insert |-> "none"]
       ELSE [commit |-> [Hash |-> parts[1], RepositoryID |-> repoID,
                         Author |-> parts[2], Email |-> parts[3]],
             insert |-> "commit"]

\* a faulty variant, for comparison: a count that is not a number is read as 0
parseStat_ErrorIsZero(line, current) ==
    LET parts == Fields(line)
        adds == Atoi(parts[1])
        dels == Atoi(parts[2])
        rename == Len(parts) >= 5 /\ parts[4] = <<"=", ">">>
    IN IF current = NoCommit \/ line = <<>> THEN [insert |-> "none"]
       ELSE IF Len(parts) < 3 THEN [insert |-> "none"]
       ELSE [insert |-> "file",
             file |-> [CommitHash |-> current.Hash,
                       Filepath |-> IF rename THEN parts[5] ELSE parts[3],
                       Additions |-> adds.val,
                       Deletions |-> dels.val,
                       ChangeType |-> IF rename THEN "R"
                                      ELSE changeTypeOf(adds.val, dels.val)]]

\* any other line: the FileChange it yields, if any
parseStat(line, current) ==
    LET parts == Fields(line)
        adds == Atoi(parts[1])
        dels == Atoi(parts[2])
        rename == Len(parts) >= 5 /\ parts[4] = <<"=", ">">>
    IN IF current = NoCommit \/ line = <<>> THEN [insert |-> "none"]
       ELSE IF Len(parts) < 3 THEN [insert |-> "none"]
       ELSE IF adds.err \/ dels.err THEN [insert |-> "none"]
       ELSE [insert |-> "file",
             file |-> [CommitHash |-> current.Hash,
                       Filepath |-> IF rename THEN parts[5] ELSE parts[3],
                       Additions |-> adds.val,
                       Deletions |-> dels.val,
                       ChangeType |-> IF rename THEN "R"
                                      ELSE changeTypeOf(adds.val, dels.val)]]

(***************************************************************************)
(* The store.  A transaction keeps its rows apart until it commits.        *)
(***************************************************************************)
\* INSERT INTO commits: hash is the PRIMARY KEY of the table
commitInsertFails(commit, table, pending) ==
    \E c \in table \cup pending : c.Hash = commit.Hash

\* tx.Commit(): the rows of the transaction reach the table
txCommitSet(table, pending) == table \cup pending
txCommitSeq(table, pending) == table \o pending

\* a faulty variant, for comparison: the rows written before the error stay
txRollbackSet_KeepsRows(table, pending) == table \cup pending

\* defer tx.Rollback(): the rows of the transaction are dropped
txRollbackSet(table, pending) == table

\* a faulty variant, for comparison: the file changes written before the error
\* stay
txRollbackSeq_KeepsRows(table, pending) == table \o pending

txRollbackSeq(table, pending) == table

(***************************************************************************)
(* computeComponentContributions: the aggregation held in memory.          *)
(***************************************************************************)
\* a map without keys
EmptyMap == [k \in {} |-> 0]

\* m with key bound to value
MapPut(m, key, value) ==
    [k \in DOMAIN m \cup {key} |-> IF k = key THEN value ELSE m[k]]

\* a faulty variant, for comparison: the cut made at the last sep
SplitN2_AtLast(s, sep) ==
    LET is == {i \in 1..Len(s) : <<s[i]>> = sep}
        last == CHOOSE i \in is : \A j \in is : j <= i
    IN IF is = {} THEN <<s>>
       ELSE <<SubSeq(s, 1, last - 1), SubSeq(s, last + 1, Len(s))>>

\* strings.SplitN(s, sep, 2) for a one-character sep
SplitN2(s, sep) ==
    LET i == Index(s, sep)
    IN IF i = 0 THEN <<s>>
       ELSE <<SubSeq(s, 1, i - 1), SubSeq(s, i + 1, Len(s))>>

\* the patterns of a component by repository name: an entry without ":" is
\* skipped
RECURSIVE groupPatterns(_, _)
groupPatterns(paths, patterns) ==
    IF paths = <<>> THEN patterns
    ELSE LET parts == SplitN2(Head(paths), <<":">>)
         IN IF Len(parts) # 2 THEN groupPatterns(Tail(paths), patterns)
            ELSE groupPatterns(Tail(paths),
                     MapPut(patterns, parts[1],
                            IF parts[1] \in DOMAIN patterns
                            THEN Append(patterns[parts[1]], parts[2])
                            ELSE <<parts[2]>>))

\* SELECT ... FROM commits c JOIN file_changes fc ON c.hash = fc.commit_hash
\* W\* the pattern has a second "**" after its first one c.repository_id = ?, the rows in the order of file_changes
RECURSIVE joinRows(_, _, _)
joinRows(commitTable, fileTable, repoID) ==
    IF fileTable = <<>> THEN <<>>
    ELSE LET fc == Head(fileTable)
             cs == {c \in commitTable :
                       c.Hash = fc.CommitHash /\ c.RepositoryID = repoID}
             rest == joinRows(commitTable, Tail(fileTable), repoID)
         IN IF cs = {} THEN rest
            ELSE LET c == CHOOSE x \in cs : TRUE
                 IN <<[hash |-> c.Hash, author |-> c.Author, email |-> c.Email,
                       additions |-> fc.Additions, deletions |-> fc.Deletions,
                       filepath |-> fc.Filepath]>> \o rest

\* the loop over repoPatterns, left at the first pattern that matches
rowMatches(filepath, repoPatterns) ==
    \E i \in 1..Len(repoPatterns) : matchPath(filepath, repoPatterns[i])

\* the zero value of a map entry
ZeroContrib == [author |-> <<>>, commits |-> {}, additions |-> 0, deletions |-> 0]

\* a faulty variant, for comparison: every matched row counts, as a counter of rows would
addRow_CountsRows(contrib, row) ==
    [author |-> row.author,
     commits |-> contrib.commits \cup {<<row.hash, Cardinality(contrib.commits)>>},
     additions |-> contrib.additions + row.additions,
     deletions |-> contrib.deletions + row.deletions]

\* a faulty variant, for comparison: the additions of the row added to both totals
addRow_AdditionsTwice(contrib, row) ==
    [author |-> row.author,
     commits |-> contrib.commits \cup {row.hash},
     additions |-> contrib.additions + row.additions,
     deletions |-> contrib.deletions + row.additions]

\* a faulty variant, for comparison: the counts of the row scanned last are
\* kept as the totals
addRow_KeepsLastCounts(contrib, row) ==
    [author |-> row.author,
     commits |-> contrib.commits \cup {row.hash},
     additions |-> row.additions,
     deletions |-> row.deletions]

\* a matched row added to the entry of its key
addRow(contrib, row) ==
    [author |-> row.author,
     commits |-> contrib.commits \cup {row.hash},
     additions |-> contrib.additions + row.additions,
     deletions |-> contrib.deletions + row.deletions]

\* the loop over the rows of one (component, repository) group
RECURSIVE scanRows(_, _, _, _, _)
scanRows(rows, repoPatterns, componentID, repoID, contributions) ==
    IF rows = <<>> THEN contributions
    ELSE LET row == Head(rows)
             key == <<componentID, repoID, row.email>>
             contrib == IF key \in DOMAIN contributions
                        THEN contributions[key] ELSE ZeroContrib
         IN scanRows(Tail(rows), repoPatterns, componentID, repoID,
                     IF rowMatches(row.filepath, repoPatterns)
                     THEN MapPut(contributions, key, addRow(contrib, row))
                     ELSE contributions)

\* a faulty variant, for comparison: a name that is not in repoIDs is taken
\* for the first repository
RECURSIVE scanGroups_UnknownIsFirst(_, _, _, _, _, _, _)
scanGroups_UnknownIsFirst(names, patterns, componentID, ids, commitTable, fileTable, contributions) ==
    IF names = <<>> THEN contributions
    ELSE LET repoName == Head(names)
             repoID == IF repoName \in DOMAIN ids THEN ids[repoName] ELSE 1
         IN scanGroups_UnknownIsFirst(Tail(names), patterns, componentID, ids,
                commitTable, fileTable,
                scanRows(joinRows(commitTable, fileTable, repoID),
                         patterns[repoName], componentID, repoID, contributions))

\* the loop over the repository names of one component, in the order names
\* gives them: a name that is not in repoIDs is skipped
RECURSIVE scanGroups(_, _, _, _, _, _, _)
scanGroups(names, patterns, componentID, ids, commitTable, fileTable, contributions) ==
    IF names = <<>> THEN contributions
    ELSE LET repoName == Head(names)
         IN scanGroups(Tail(names), patterns, componentID, ids,
                       commitTable, fileTable,
                       IF repoName \notin DOMAIN ids THEN contributions
                       ELSE scanRows(joinRows(commitTable, fileTable, ids[repoName]),
                                     patterns[repoName], componentID, ids[repoName],
                                     contributions))

\* SELECT id FROM components W\* the pattern has a second "**" after its first one name = ?  (0: no such row)
componentIDOf(componentTable, name) ==
    IF \E i \in 1..Len(componentTable) : componentTable[i].name = name
    THEN CHOOSE i \in 1..Len(componentTable) : componentTable[i].name = name
    ELSE 0

\* s from its last element to its first
RECURSIVE Reverse(_)
Reverse(s) == IF s = <<>> THEN <<>> ELSE Append(Reverse(Tail(s)), Head(s))

\* the keys of a Go map in one of the orders `range` may give them: an
\* order, or that order backwards
RECURSIVE KeysInOrder(_)
KeysInOrder(keys) ==
    IF keys = {} THEN <<>>
    ELSE LET k == CHOOSE x \in keys : TRUE IN <<k>> \o KeysInOrder(keys \ {k})

rangeKeys(m, backwards) ==
    IF backwards THEN Reverse(KeysInOrder(DOMAIN m)) ELSE KeysInOrder(DOMAIN m)

\* the orders in which a query without ORDER BY may give the rows of a table:
\* as inserted, backwards, or from the second row on with the first at the end
ScanOrders == {"inserted", "backwards", "rotated"}

rowsInOrder(table, order) ==
    IF order = "backwards" THEN Reverse(table)
    ELSE IF order = "rotated" /\ table # <<>> THEN Append(Tail(table), Head(table))
    ELSE table

\* the loop over the configured components; backwards is the order `range`
\* gives the repository names of a component
RECURSIVE scanComponents(_, _, _, _, _, _, _)
scanComponents(comps, componentTable, ids, commitTable, fileTable, contributions, backwards) ==
    IF comps = <<>> THEN [err |-> FALSE, contributions |-> contributions]
    ELSE LET comp == Head(comps)
             componentID == componentIDOf(componentTable, comp.Name)
             patterns == groupPatterns(comp.Paths, EmptyMap)
         IN IF componentID = 0 THEN [err |-> TRUE, contributions |-> EmptyMap]
            ELSE scanComponents(Tail(comps), componentTable, ids, commitTable, fileTable,
                     scanGroups(rangeKeys(patterns, backwards), patterns, componentID,
                                ids, commitTable, fileTable, contributions),
                     backwards)

\* the row written for one key of the map
contributionRow(key, contrib) ==
    [component_id |-> key[1], repository_id |-> key[2],
     author |-> contrib.author, email |-> key[3],
     commit_count |-> Cardinality(contrib.commits),
     total_additions |-> contrib.additions,
     total_deletions |-> contrib.deletions]

(***************************************************************************)
(* The state.                                                              *)
(***************************************************************************)
VARIABLES
    \* the matcher on its own
    mPath, mPattern, mResult, mState,
    \* the earlier matchPath, for comparison
    mOlder,
    \* the configuration and what `git log` prints in each repository
    cfgRepositories, cfgComponents, gitOutput,
    \* the tables of the store
    repositories, components, commits, file_changes, component_contributions,
    \* the rows of the open transaction
    txCommits, txFileChanges, txContributions,
    \* main: where it is, its loop index over the repositories, repoIDs
    pc, repoIdx, repoIDs,
    \* parseGitLog: the line the scanner is at, currentCommit
    lineNo, currentCommit,
    \* computeComponentContributions: the map held in memory
    contributions,
    \* the repositories whose transaction has committed, and the error that
    \* ended the run
    ingested, failure

mvars == <<mPath, mPattern, mResult, mState, mOlder>>

cfgvars == <<cfgRepositories, cfgComponents, gitOutput>>

pvars == <<cfgRepositories, cfgComponents, gitOutput,
           repositories, components, commits, file_changes, component_contributions,
           txCommits, txFileChanges, txContributions,
           pc, repoIdx, repoIDs, lineNo, currentCommit, contributions,
           ingested, failure>>

vars == <<mvars, pvars>>

NoFailure == [stage |-> "none", repo |-> 0, discarded |-> 0]

\* the matcher is not in use
MatcherIdle ==
    /\ mPath = <<>>
    /\ mPattern = <<>>
    /\ mResult = FALSE
    /\ mOlder = FALSE
    /\ mState = "idle"

\* the state main starts from, before the configuration is known
PipelineStart ==
    /\ repositories = <<>>
    /\ components = <<>>
    /\ commits = {}
    /\ file_changes = <<>>
    /\ component_contributions = {}
    /\ txCommits = {}
    /\ txFileChanges = <<>>
    /\ txContributions = {}
    /\ pc = "insertRepository"
    /\ repoIdx = 1
    /\ repoIDs = EmptyMap
    /\ lineNo = 1
    /\ currentCommit = NoCommit
    /\ contributions = EmptyMap
    /\ ingested = {}
    /\ failure = NoFailure

\* the pipeline is not in use
PipelineIdle ==
    /\ cfgRepositories = <<>>
    /\ cfgComponents = <<>>
    /\ gitOutput = <<>>
    /\ PipelineStart

(***************************************************************************)
(* The matcher on its own: a path and a pattern are drawn, matchPath is    *)
(* applied to them.                                                        *)
(***************************************************************************)

\* the characters of the paths and of the patterns
PathChars == {"a", "/", "*", "["}
PatternChars == {"a", "/", "*", "["}

\* every string over chars of at most n characters
StringsUpTo(chars, n) == UNION {[1..k -> chars] : k \in 0..n}

MatchInit ==
    /\ mPath \in StringsUpTo(PathChars, MaxPathLen)
    /\ mPattern \in StringsUpTo(PatternChars, MaxPatLen)
    /\ mResult = FALSE
    /\ mOlder = FALSE
    /\ mState = "input"
    /\ PipelineIdle

\* one call matchPath(filepath, pattern), as made from the aggregation loop
MatchPath ==
    /\ mState = "input"
    /\ mResult' = matchPath(mPath, mPattern)
    /\ mState' = "done"
    /\ UNCHANGED <<mPath, mPattern, mOlder>>
    /\ UNCHANGED pvars

MatchNext == MatchPath

MatchSpec == MatchInit /\ [][MatchNext]_vars

(***************************************************************************)
(* The matcher on longer patterns over fewer characters: the patterns      *)
(* reach the form prefix/**/suffix.                                        *)
(***************************************************************************)
SegmentPathChars == {"a", "/"}
SegmentPatternChars == {"a", "/", "*"}

SegmentInit ==
    /\ mPath \in StringsUpTo(SegmentPathChars, MaxSegmentPathLen)
    /\ mPattern \in StringsUpTo(SegmentPatternChars, MaxSegmentPatLen)
    /\ mResult = FALSE
    /\ mOlder = FALSE
    /\ mState = "input"
    /\ PipelineIdle

SegmentSpec == SegmentInit /\ [][MatchNext]_vars

(***************************************************************************)
(* The two matchers side by side: a path and a pattern are drawn, the      *)
(* matchPath of src/main.go and that of the earlier source are applied to  *)
(* them.                                                                   *)
(***************************************************************************)
\* the characters of the paths and of the patterns
OlderChars == {"a", "/", ".", "*"}

OlderInit ==
    /\ mPath \in StringsUpTo(OlderChars, MaxPathLen)
    /\ mPattern \in StringsUpTo(OlderChars, MaxPatLen)
    /\ mResult = FALSE
    /\ mOlder = FALSE
    /\ mState = "input"
    /\ PipelineIdle

\* one call of each matchPath on the same arguments
MatchBoth ==
    /\ mState = "input"
    /\ mResult' = matchPath(mPath, mPattern)
    /\ mOlder' = olderMatchPath(mPath, mPattern)
    /\ mState' = "done"
    /\ UNCHANGED <<mPath, mPattern>>
    /\ UNCHANGED pvars

OlderNext == MatchBoth

OlderSpec == OlderInit /\ [][OlderNext]_vars

(***************************************************************************)
(* The inputs of a run: the configured repositories and components, and    *)
(* the text `git log` prints in each repository.                           *)
(***************************************************************************)
\* the most commit blocks in the log of the first repository; the second
\* repository has one fewer
MaxChunks == 2

\* repository and component names
RepoR == <<"r">>
RepoS == <<"s">>
CompP == <<"p">>
CompQ == <<"q">>

\* hashes, authors, emails
H1 == <<"h", "1">>
H2 == <<"h", "2">>
H3 == <<"h", "3">>
H4 == <<"h", "4">>
H5 == <<"h", "5">>
Al == <<"A", "l">>
Bo == <<"B", "o">>
Ro == <<"R", "o">>
AlMail == <<"a", "@">>
BoMail == <<"b", "@">>

\* a header line as --pretty=format:%H%x00%an%x00%ae%x00%ai%x00%s%x00 prints it
HeaderLine(hash, author, email, date) ==
    hash \o NUL \o author \o NUL \o email \o NUL \o date \o NUL \o <<"m">> \o NUL

\* a --numstat line
StatLine(adds, dels, path) == adds \o TAB \o dels \o TAB \o path

\* blocks of lines a log is made of
LogChunks ==
    { <<HeaderLine(H1, Al, AlMail, <<"T">>), StatLine(<<"1", "0">>, <<"2">>, <<"a", "/", "a">>)>>,
      <<HeaderLine(H2, Al, AlMail, <<"T">>), StatLine(<<"0">>, <<"5">>, <<"a", "/", "b">>)>>,
      <<HeaderLine(H3, Bo, BoMail, <<"T">>), StatLine(<<"3">>, <<"1">>, <<"a", "/", "a">>),
        StatLine(<<"4">>, <<"0">>, <<"b">>), StatLine(<<"2">>, <<"2">>, <<"a", "/", "b">>)>>,
      <<HeaderLine(H1, Ro, BoMail, <<"T">>), StatLine(<<"1">>, <<"1">>, <<"a", "/", "a">>),
        StatLine(<<"2">>, <<"0">>, <<"b", ":">>)>>,
      <<<<>>, StatLine(<<"-">>, <<"-">>, <<"a", "/", "a">>),
        H4 \o NUL \o Al \o NUL \o AlMail, StatLine(<<"7">>, <<"0">>, <<"a", "/", "a">>)>>,
      <<HeaderLine(H4, Al, AlMail, <<"X">>),
        HeaderLine(H5, Al, AlMail, <<"T">>),
        StatLine(<<"0">>, <<"0">>, <<"b", " ", "=", ">", " ", "a", "/", "b">>)>> }

\* blocks of the log of the second repository
SecondChunks ==
    { <<HeaderLine(H1, Al, AlMail, <<"T">>), StatLine(<<"6">>, <<"0">>, <<"a", "/", "a">>)>>,
      <<HeaderLine(H4, Bo, BoMail, <<"T">>), StatLine(<<"2">>, <<"3">>, <<"a", "/", "a">>)>> }

RECURSIVE Flatten(_)
Flatten(seqs) == IF seqs = <<>> THEN <<>> ELSE Head(seqs) \o Flatten(Tail(seqs))

\* every sequence over S of at most n elements
SeqsUpTo(S, n) == UNION {[1..k -> S] : k \in 0..n}

\* every log of at most n blocks
Logs(chunks, n) == {Flatten(ks) : ks \in SeqsUpTo(chunks, n)}

\* what cmd.Output() returns
GitPrinted(lines) == [ok |-> TRUE, lines |-> lines]
GitFailed == [ok |-> FALSE, lines |-> <<>>]

\* the configured components
ComponentSets ==
    { <<[Name |-> CompP, Paths |-> <<RepoR \o <<":", "a", "/", "*", "*">>>>]>>,
      <<[Name |-> CompP, Paths |-> <<RepoR \o <<":", "a", "/", "*", "*">>,
                                      RepoR \o <<":", "*", "*", "/", "a">>,
                                      RepoS \o <<":", "*", "*">>>>],
        [Name |-> CompQ, Paths |-> <<RepoR \o <<":", "*", "*">>,
                                      <<"x", ":", "*", "*">>,
                                      <<"b">>>>]>>,
      <<[Name |-> CompQ, Paths |-> <<RepoR \o <<":", "*">>,
                                      RepoS \o <<":", "a", "/", "*">>>>]>>,
      \* a component whose entries name no configured repository or lack the
      \* ":", and one with such an entry between well-formed ones
      <<[Name |-> CompP, Paths |-> <<<<"x", ":", "*", "*">>, <<"x", ":", "a">>>>],
        [Name |-> CompQ, Paths |-> <<RepoR \o <<":", "a", "/", "*">>,
                                      <<"b">>,
                                      RepoR \o <<":", "b", ":">>>>]>>,
      \* two components of one name
      <<[Name |-> CompP, Paths |-> <<RepoR \o <<":", "a", "/", "*", "*">>>>],
        [Name |-> CompP, Paths |-> <<RepoR \o <<":", "*", "*">>>>]>> }

\* the runs: one repository, or two
Runs ==
    {[repos |-> <<RepoR>>, output |-> <<o>>, comps |-> cs] :
        o \in {GitPrinted(l) : l \in Logs(LogChunks, MaxChunks)} \cup {GitFailed},
        cs \in ComponentSets}
    \cup
    {[repos |-> <<RepoR, RepoS>>, output |-> <<GitPrinted(l), o>>, comps |-> cs] :
        l \in Logs(LogChunks, MaxChunks - 1),
        o \in {GitPrinted(l2) : l2 \in Logs(SecondChunks, MaxChunks - 1)} \cup {GitFailed},
        cs \in ComponentSets}
    \cup
    \* two repositories of one name
    {[repos |-> <<RepoR, RepoR>>, output |-> <<GitPrinted(l), GitPrinted(l)>>, comps |-> cs] :
        l \in Logs(SecondChunks, MaxChunks - 1),
        cs \in ComponentSets}

Init ==
    /\ MatcherIdle
    /\ \E run \in Runs :
          /\ cfgRepositories = run.repos
          /\ gitOutput = run.output
          /\ cfgComponents = run.comps
    /\ PipelineStart

(***************************************************************************)
(* main and the functions it calls.                                        *)
(***************************************************************************)
\* a faulty variant, for comparison: a repository that fails is logged and
\* main goes on to the aggregation
logFatalf_GoesOn(stage) ==
    IF stage \in {"processRepository", "parseGitLog"}
    THEN "computeComponentContributions" ELSE "fatal"

\* where main is after log.Fatalf: the process has exited
logFatalf(stage) == "fatal"

\* log.Fatalf: the process ends; what it held in memory is gone
Fatal(stage, repo, discarded) ==
    /\ pc' = logFatalf(stage)
    /\ failure' = [stage |-> stage, repo |-> repo, discarded |-> discarded]
    /\ txCommits' = {}
    /\ txFileChanges' = <<>>
    /\ txContributions' = {}
    /\ lineNo' = 1
    /\ currentCommit' = NoCommit
    /\ contributions' = EmptyMap
    /\ UNCHANGED <<repoIdx, repoIDs, ingested>>

\* the loop of main over config.Repositories that calls insertRepository: the
\* name of a repository is UNIQUE, each INSERT is a statement of its own
InsertRepository ==
    /\ pc = "insertRepository"
    /\ \E ioErr \in BOOLEAN :
          LET name == cfgRepositories[repoIdx]
              last == repoIdx = Len(cfgRepositories)
          IN IF ioErr \/ \E i \in 1..Len(repositories) : repositories[i].name = name
             THEN /\ Fatal("insertRepository", repoIdx, 0)
                  /\ UNCHANGED repositories
             ELSE /\ repositories' = Append(repositories, [name |-> name])
                  /\ repoIDs' = MapPut(repoIDs, name, Len(repositories) + 1)
                  /\ repoIdx' = IF last THEN 1 ELSE repoIdx + 1
                  /\ pc' = IF last THEN "insertComponents" ELSE "insertRepository"
                  /\ UNCHANGED <<txCommits, txFileChanges, txContributions, lineNo,
                                 currentCommit, contributions, ingested, failure>>
    /\ UNCHANGED <<components, commits, file_changes, component_contributions>>
    /\ UNCHANGED cfgvars
    /\ UNCHANGED mvars

\* insertComponents' loop: the name of a component is UNIQUE, each INSERT is a
\* statement of its own; failAt is the INSERT the store fails at (0: none)
RECURSIVE insertComponentsLoop(_, _, _, _)
insertComponentsLoop(comps, table, failAt, k) ==
    IF comps = <<>> THEN [table |-> table, err |-> FALSE]
    ELSE IF k = failAt \/ \E i \in 1..Len(table) : table[i].name = Head(comps).Name
    THEN [table |-> table, err |-> TRUE]
    ELSE insertComponentsLoop(Tail(comps),
             Append(table, [name |-> Head(comps).Name, path_patterns |-> Head(comps).Paths]),
             failAt, k + 1)

InsertComponents ==
    /\ pc = "insertComponents"
    /\ \E failAt \in 0..Len(cfgComponents) :
          LET r == insertComponentsLoop(cfgComponents, components, failAt, 1)
          IN /\ components' = r.table
             /\ IF r.err
                THEN Fatal("insertComponents", 0, 0)
                ELSE /\ pc' = "processRepository"
                     /\ UNCHANGED <<txCommits, txFileChanges, txContributions, lineNo,
                                    currentCommit, contributions, ingested, failure,
                                    repoIdx, repoIDs>>
    /\ UNCHANGED <<repositories, commits, file_changes, component_contributions>>
    /\ UNCHANGED cfgvars
    /\ UNCHANGED mvars

\* processRepository up to parseGitLog's db.Begin(): `git log` is run; its
\* failure, or that of Begin or Prepare, is returned to main
ProcessRepository ==
    /\ pc = "processRepository"
    /\ \E beginErr \in BOOLEAN :
          IF ~gitOutput[repoIdx].ok \/ beginErr
          THEN Fatal("processRepository", repoIdx, 0)
          ELSE /\ pc' = "parseGitLog"
               /\ lineNo' = 1
               /\ currentCommit' = NoCommit
               /\ txCommits' = {}
               /\ txFileChanges' = <<>>
               /\ UNCHANGED <<txContributions, contributions, ingested, failure,
                              repoIdx, repoIDs>>
    /\ UNCHANGED <<repositories, components, commits, file_changes,
                   component_contributions>>
    /\ UNCHANGED cfgvars
    /\ UNCHANGED mvars

\* a faulty variant, for comparison: the records are written without a
\* transaction, each INSERT a statement of its own
RollbackAndFail_RecordsStay(stage) ==
    /\ commits' = txRollbackSet(commits, txCommits)
    /\ file_changes' = txRollbackSeq(file_changes, txFileChanges)
    /\ component_contributions' = component_contributions \cup txContributions
    /\ Fatal(stage, repoIdx,
             Cardinality(txCommits) + Len(txFileChanges) + Cardinality(txContributions))

\* an error returned by parseGitLog or by the writing of the contributions:
\* the deferred tx.Rollback() runs, then main ends the process
RollbackAndFail(stage) ==
    /\ commits' = txRollbackSet(commits, txCommits)
    /\ file_changes' = txRollbackSeq(file_changes, txFileChanges)
    /\ component_contributions' = txRollbackSet(component_contributions, txContributions)
    /\ Fatal(stage, repoIdx,
             Cardinality(txCommits) + Len(txFileChanges) + Cardinality(txContributions))

\* a faulty variant, for comparison: the aggregation called inside the loop over the repositories
afterRepository_InsideLoop(idx, n) == "computeComponentContributions"

\* where main goes after the repository at idx of n
afterRepository(idx, n) ==
    IF idx < n THEN "processRepository" ELSE "computeComponentContributions"

\* one turn of parseGitLog's loop over the lines of the output
ParseLine ==
    /\ pc = "parseGitLog"
    /\ lineNo <= Len(gitOutput[repoIdx].lines)
    /\ LET line == gitOutput[repoIdx].lines[lineNo]
           repoID == repoIDs[cfgRepositories[repoIdx]]
           h == parseHeader(line, repoID, currentCommit)
           st == parseStat(line, currentCommit)
           insert == IF Contains(line, NUL) THEN h.insert ELSE st.insert
       IN \E ioErr \in BOOLEAN :
             IF insert = "none"
             THEN /\ ~ioErr
                  /\ lineNo' = lineNo + 1
                  /\ UNCHANGED <<commits, file_changes, component_contributions,
                                 txCommits, txFileChanges, txContributions, pc,
                                 currentCommit, contributions, failure,
                                 repoIdx, repoIDs, ingested>>
             ELSE IF ioErr \/ (insert = "commit"
                               /\ commitInsertFails(h.commit, commits, txCommits))
             THEN RollbackAndFail("parseGitLog")
             ELSE /\ lineNo' = lineNo + 1
                  /\ currentCommit' = IF insert = "commit" THEN h.commit ELSE currentCommit
                  /\ txCommits' = IF insert = "commit"
                                  THEN txCommits \cup {h.commit} ELSE txCommits
                  /\ txFileChanges' = IF insert = "file"
                                      THEN Append(txFileChanges, st.file)
                                      ELSE txFileChanges
                  /\ UNCHANGED <<commits, file_changes, component_contributions,
                                 txContributions, pc, contributions, failure,
                                 repoIdx, repoIDs, ingested>>
    /\ UNCHANGED <<repositories, components>>
    /\ UNCHANGED cfgvars
    /\ UNCHANGED mvars

\* the end of the output: tx.Commit(), and main goes on
CommitIngestion ==
    /\ pc = "parseGitLog"
    /\ lineNo > Len(gitOutput[repoIdx].lines)
    /\ \E commitErr \in BOOLEAN :
          IF commitErr
          THEN RollbackAndFail("parseGitLog")
          ELSE /\ commits' = txCommitSet(commits, txCommits)
               /\ file_changes' = txCommitSeq(file_changes, txFileChanges)
               /\ txCommits' = {}
               /\ txFileChanges' = <<>>
               /\ ingested' = ingested \cup {repoIdx}
               /\ pc' = afterRepository(repoIdx, Len(cfgRepositories))
               /\ repoIdx' = IF repoIdx < Len(cfgRepositories) THEN repoIdx + 1 ELSE repoIdx
               /\ lineNo' = 1
               /\ currentCommit' = NoCommit
               /\ UNCHANGED <<component_contributions, txContributions, contributions,
                              failure, repoIDs>>
    /\ UNCHANGED <<repositories, components>>
    /\ UNCHANGED cfgvars
    /\ UNCHANGED mvars

\* computeComponentContributions up to its db.Begin(): the store is read and
\* the map is filled; the queries give the rows in an order of their own and
\* `range` gives the keys of the map of patterns in an order of its own
ComputeContributions ==
    /\ pc = "computeComponentContributions"
    /\ \E order \in ScanOrders, backwards \in BOOLEAN :
       LET r == scanComponents(cfgComponents, components, repoIDs, commits,
                               rowsInOrder(file_changes, order), EmptyMap, backwards)
       IN \E beginErr \in BOOLEAN :
             IF r.err \/ beginErr
             THEN Fatal("computeComponentContributions", 0, 0)
             ELSE /\ contributions' = r.contributions
                  /\ pc' = "writeContributions"
                  /\ txContributions' = {}
                  /\ UNCHANGED <<txCommits, txFileChanges, lineNo, currentCommit,
                                 ingested, failure, repoIdx, repoIDs>>
    /\ UNCHANGED <<repositories, components, commits, file_changes,
                   component_contributions>>
    /\ UNCHANGED cfgvars
    /\ UNCHANGED mvars

\* the keys of the map whose row the loop has written
writtenKeys ==
    {<<row.component_id, row.repository_id, row.email>> : row \in txContributions}

\* one turn of the loop over the map, whose order Go leaves open
InsertContribution ==
    /\ pc = "writeContributions"
    /\ \E key \in DOMAIN contributions \ writtenKeys :
       \E ioErr \in BOOLEAN :
          IF ioErr
          THEN RollbackAndFail("writeContributions")
          ELSE /\ txContributions' =
                      txContributions \cup {contributionRow(key, contributions[key])}
               /\ UNCHANGED <<commits, file_changes, component_contributions,
                              txCommits, txFileChanges, pc, lineNo, currentCommit,
                              contributions, failure, repoIdx, repoIDs, ingested>>
    /\ UNCHANGED <<repositories, components>>
    /\ UNCHANGED cfgvars
    /\ UNCHANGED mvars

\* the end of the loop: tx.Commit(), and main returns
CommitContributions ==
    /\ pc = "writeContributions"
    /\ DOMAIN contributions \ writtenKeys = {}
    /\ \E commitErr \in BOOLEAN :
          IF commitErr
          THEN RollbackAndFail("writeContributions")
          ELSE /\ component_contributions' =
                      txCommitSet(component_contributions, txContributions)
               /\ txContributions' = {}
               /\ contributions' = EmptyMap
               /\ pc' = "done"
               /\ UNCHANGED <<commits, file_changes, txCommits, txFileChanges, lineNo,
                              currentCommit, failure, repoIdx, repoIDs, ingested>>
    /\ UNCHANGED <<repositories, components>>
    /\ UNCHANGED cfgvars
    /\ UNCHANGED mvars

Next ==
    \/ InsertRepository
    \/ InsertComponents
    \/ ProcessRepository
    \/ ParseLine
    \/ CommitIngestion
    \/ ComputeContributions
    \/ InsertContribution
    \/ CommitContributions

Spec == Init /\ [][Next]_vars

(***************************************************************************)
(* parseGitLog on its own: one repository is configured, its row is in the *)
(* store, and parseGitLog has opened its transaction on a log drawn from   *)
(* lines of every shape.                                                   *)
(***************************************************************************)
\* the most lines of a log
MaxLines == 3

\* header lines: two well-formed, one with a date that is not in the layout,
\* one of four fields
ParseHeaders ==
    { HeaderLine(H1, Al, AlMail, <<"T">>),
      HeaderLine(H2, Bo, BoMail, <<"T">>),
      HeaderLine(H3, Al, AlMail, <<"X">>),
      H5 \o NUL \o Al \o NUL \o AlMail \o NUL \o <<"T">> }

\* the count fields of a numeric stat line
CountFields == {<<"0">>, <<"3">>}

\* the count fields of the stat line of a binary file, for which git prints
\* "-", and of lines with one count that is not a number
BinaryCounts == {<<<<"-">>, <<"-">>>>, <<<<"3">>, <<"-">>>>, <<<<"-">>, <<"0">>>>}

\* count fields with a sign, which strconv.Atoi takes for numbers
SignedCounts == {<<<<"-", "5">>, <<"0">>>>, <<<<"0">>, <<"-", "5">>>>, <<<<"+", "3">>, <<"0">>>>}

\* path fields with a rename arrow: between two paths without spaces, after a
\* path with a space, before a path with a space
ArrowPaths ==
    { <<"b", " ", "=", ">", " ", "a">>,
      <<"a", " ", "b", " ", "=", ">", " ", "c">>,
      <<"b", " ", "=", ">", " ", "a", " ", "c">> }

\* path fields without one, the last with a space
PlainPaths == { <<"a">>, <<"a", "=", ">", "b">>, <<"a", " ", "b">> }

ParseStats ==
    {StatLine(adds, dels, <<"a">>) : adds \in CountFields, dels \in CountFields}
    \cup {StatLine(c[1], c[2], <<"a">>) : c \in BinaryCounts \cup SignedCounts}
    \cup {StatLine(<<"0">>, <<"0">>, path) : path \in ArrowPaths \cup PlainPaths}
    \cup {StatLine(<<"3">>, <<"0">>, <<"b", " ", "=", ">", " ", "a">>)}

\* the logs: a header line, then lines of any kind
ParseLogs ==
    {<<h>> \o rest : h \in ParseHeaders,
                     rest \in SeqsUpTo(ParseHeaders \cup ParseStats, MaxLines - 1)}

ParseInit ==
    /\ MatcherIdle
    /\ cfgRepositories = <<RepoR>>
    /\ cfgComponents = <<>>
    /\ gitOutput \in {<<GitPrinted(l)>> : l \in ParseLogs}
    /\ repositories = <<[name |-> RepoR]>>
    /\ components = <<>>
    /\ commits = {}
    /\ file_changes = <<>>
    /\ component_contributions = {}
    /\ txCommits = {}
    /\ txFileChanges = <<>>
    /\ txContributions = {}
    /\ pc = "parseGitLog"
    /\ repoIdx = 1
    /\ repoIDs = MapPut(EmptyMap, RepoR, 1)
    /\ lineNo = 1
    /\ currentCommit = NoCommit
    /\ contributions = EmptyMap
    /\ ingested = {}
    /\ failure = NoFailure

ParseNext ==
    \/ ParseLine
    \/ CommitIngestion

ParseSpec == ParseInit /\ [][ParseNext]_vars

(***************************************************************************)
(* What the specification says of a pattern with "**": the text before and *)
(* after the first "**", one adjacent "/" stripped on each side.           *)
(***************************************************************************)
HasDoubleStar(pattern) == \E i \in 1..(Len(pattern) - 1) :
                              pattern[i] = "*" /\ pattern[i + 1] = "*"

FirstDoubleStar(pattern) ==
    CHOOSE i \in 1..(Len(pattern) - 1) :
        /\ pattern[i] = "*" /\ pattern[i + 1] = "*"
        /\ \A j \in 1..(i - 1) : ~(pattern[j] = "*" /\ pattern[j + 1] = "*")

BeforeFirst(pattern) == SubSeq(pattern, 1, FirstDoubleStar(pattern) - 1)
AfterFirst(pattern) == SubSeq(pattern, FirstDoubleStar(pattern) + 2, Len(pattern))

SpecPrefix(pattern) ==
    LET b == BeforeFirst(pattern)
    IN IF b # <<>> /\ b[Len(b)] = "/" THEN SubSeq(b, 1, Len(b) - 1) ELSE b

SpecSuffix(pattern) ==
    LET a == AfterFirst(pattern)
    IN IF a # <<>> /\ a[1] = "/" THEN SubSeq(a, 2, Len(a)) ELSE a

\* s starts with t / ends with t / has t somewhere
StartsWith(s, t) == \E u \in {SubSeq(s, 1, k) : k \in 0..Len(s)} : u = t
EndsWith(s, t) == \E u \in {SubSeq(s, k + 1, Len(s)) : k \in 0..Len(s)} : u = t
Occurs(s, t) == \E i \in 0..Len(s) : \E j \in i..Len(s) : SubSeq(s, i + 1, j) = t

\* the pattern has a second "**" after its first one
SecondDoubleStar(pattern) == HasDoubleStar(pattern) /\ HasDoubleStar(AfterFirst(pattern))

MatchDone == mState = "done"

(***************************************************************************)
(* C3                                                                      *)
(***************************************************************************)
\* the case of C3: empty prefix, non-empty suffix, a single "**"
C3_Case ==
    /\ MatchDone
    /\ HasDoubleStar(mPattern)
    /\ ~SecondDoubleStar(mPattern)
    /\ SpecPrefix(mPattern) = <<>>
    /\ SpecSuffix(mPattern) # <<>>

\* C3 as stated: with an empty prefix and a non-empty suffix the path matches
\* iff it ends with the suffix or with "/" + suffix; "/" + suffix in the
\* middle of the path only does not match.  (Stated for a pattern with a
\* single "**".)
C3_AsStated ==
    C3_Case => (mResult <=> (\/ EndsWith(mPath, SpecSuffix(mPattern))
                             \/ EndsWith(mPath, <<"/">> \o SpecSuffix(mPattern))))

\* C3 amended: for a pattern with a single "**", an empty prefix and a
\* non-empty suffix, the path matches iff it ends with the suffix, or the
\* pattern begins with "**" itself and "/" + suffix occurs anywhere in the
\* path, the middle included.
C3_LeadingDoubleStar ==
    C3_Case => (mResult <=> (\/ EndsWith(mPath, SpecSuffix(mPattern))
                             \/ /\ BeforeFirst(mPattern) = <<>>
                                /\ Occurs(mPath, <<"/">> \o SpecSuffix(mPattern))))

\* a path matched by "**/a" although it does not end with "a"
C3_Witness ==
    /\ C3_Case
    /\ mPattern = <<"*", "*", "/", "a">>
    /\ mPath = <<"/", "a", "/">>
    /\ mResult

(***************************************************************************)
(* C4                                                                      *)
(***************************************************************************)
\* C4 as stated: for a pattern whose suffix is empty and whose prefix is not,
\* the path matches iff it equals the prefix or starts with prefix + "/"
\* (a path equal to the pattern matches by the exact-match rule).
C4_TrailingDoubleStar ==
    (/\ MatchDone
     /\ HasDoubleStar(mPattern)
     /\ SpecSuffix(mPattern) = <<>>
     /\ SpecPrefix(mPattern) # <<>>)
    => (mResult <=> (\/ mPath = mPattern
                     \/ mPath = SpecPrefix(mPattern)
                     \/ StartsWith(mPath, SpecPrefix(mPattern) \o <<"/">>)))

(***************************************************************************)
(* C5                                                                      *)
(***************************************************************************)
\* C5 as stated: a pattern with a second "**" is split at the first one only,
\* so a path that starts with the prefix and ends with the suffix (the
\* second "**" taken literally) matches.
C5_AsStated ==
    (/\ MatchDone
     /\ SecondDoubleStar(mPattern)
     /\ StartsWith(mPath, SpecPrefix(mPattern))
     /\ EndsWith(mPath, SpecSuffix(mPattern)))
    => mResult

\* C5 amended: a pattern with a second "**" after its first one is not split
\* into a prefix and a suffix at all; it matches a path only when the path
\* equals the pattern.
C5_SecondDoubleStarMatchesItselfOnly ==
    (MatchDone /\ SecondDoubleStar(mPattern)) => (mResult <=> mPath = mPattern)

\* a path that ends with the literal suffix "**" and is not matched by "****"
C5_Witness ==
    /\ MatchDone
    /\ SecondDoubleStar(mPattern)
    /\ mPath # mPattern
    /\ StartsWith(mPath, SpecPrefix(mPattern))
    /\ EndsWith(mPath, SpecSuffix(mPattern))
    /\ mPath = <<"a", "*", "*">>
    /\ ~mResult

(***************************************************************************)
(* C6                                                                      *)
(***************************************************************************)
\* a pattern whose first "[" is never closed: malformed for the glob matcher
UnterminatedClass(pattern) ==
    /\ \A i \in 1..Len(pattern) : pattern[i] # "\\"
    /\ \E i \in 1..Len(pattern) :
          /\ pattern[i] = "["
          /\ \A j \in (i + 1)..Len(pattern) : pattern[j] # "]"

\* a pattern made of ordinary characters and stars only
PlainStarPattern(pattern) ==
    \A i \in 1..Len(pattern) : pattern[i] \notin {"[", "]", "\\", "?"}

\* shell-glob matching of a plain pattern against the whole of s: a star
\* stands for any run of characters other than "/"
RECURSIVE StarGlob(_, _)
StarGlob(pattern, s) ==
    IF pattern = <<>> THEN s = <<>>
    ELSE IF Head(pattern) = "*"
    THEN \/ StarGlob(Tail(pattern), s)
         \/ s # <<>> /\ Head(s) # "/" /\ StarGlob(pattern, Tail(s))
    ELSE s # <<>> /\ Head(s) = Head(pattern) /\ StarGlob(Tail(pattern), Tail(s))

\* the shell-glob match: a malformed pattern matches nothing
GlobMatches(pattern, s) ==
    IF UnterminatedClass(pattern) THEN FALSE ELSE StarGlob(pattern, s)

\* the case of C6: a star, no "**"
C6_Case ==
    /\ MatchDone
    /\ \E i \in 1..Len(mPattern) : mPattern[i] = "*"
    /\ ~HasDoubleStar(mPattern)
    /\ PlainStarPattern(mPattern) \/ UnterminatedClass(mPattern)

\* C6 as stated: for a pattern with a star and no "**", matchPath equals the
\* shell-glob match of the pattern against the whole path.
C6_AsStated == C6_Case => (mResult <=> GlobMatches(mPattern, mPath))

\* C6 amended: for a pattern with a star and no "**", matchPath is true iff
\* the path equals the pattern or the shell-glob match of the pattern against
\* the whole path succeeds, a star never matching across a "/".
C6_SingleStarGlob ==
    C6_Case => (mResult <=> (mPath = mPattern \/ GlobMatches(mPattern, mPath)))

\* "*a" against "a/a": the star would have to cross the "/"
C6_Witness ==
    /\ C6_Case
    /\ mPattern = <<"*", "a">>
    /\ mPath = <<"a", "/", "a">>
    /\ ~mResult

(***************************************************************************)
(* C7                                                                      *)
(***************************************************************************)
\* C7: every path, the empty one and those with "/" or "*" included, is
\* matched by the pattern "**".
C7_BareDoubleStarMatchesAll ==
    (MatchDone /\ mPattern = <<"*", "*">>) => mResult

\* "**" applied to a path with a "/" and a "*"
C7_Witness ==
    /\ MatchDone
    /\ mPattern = <<"*", "*">>
    /\ mPath = <<"a", "/", "*">>
    /\ mResult

(***************************************************************************)
(* C8                                                                      *)
(***************************************************************************)
\* C8: matchPath always yields a boolean, and a pattern without any star, or
\* a malformed one handed to the glob matcher (an unterminated class with a
\* single star), matches a path only when the path equals the pattern.
C8_TotalAndExactOnly ==
    MatchDone =>
        /\ mResult \in BOOLEAN
        /\ (\/ \A i \in 1..Len(mPattern) : mPattern[i] # "*"
            \/ ~HasDoubleStar(mPattern) /\ UnterminatedClass(mPattern))
           => (mResult <=> mPath = mPattern)

\* a malformed single-star pattern applied to a path it would match if its
\* "[" were an ordinary character
C8_Witness ==
    /\ MatchDone
    /\ mPattern = <<"*", "[">>
    /\ mPath = <<"a", "[">>
    /\ ~mResult

(***************************************************************************)
(* What a run is to leave in the store.                                    *)
(***************************************************************************)
\* the rows parseGitLog produces from the whole of a log when every insert
\* succeeds
RECURSIVE ParsedRows(_, _, _, _)
ParsedRows(lines, repoID, current, rows) ==
    IF lines = <<>> THEN rows
    ELSE LET h == parseHeader(Head(lines), repoID, current)
             st == parseStat(Head(lines), current)
         IN IF Contains(Head(lines), NUL)
            THEN ParsedRows(Tail(lines), repoID, h.commit,
                     IF h.insert = "commit"
                     THEN [rows EXCEPT !.commits = @ \cup {h.commit}] ELSE rows)
            ELSE ParsedRows(Tail(lines), repoID, current,
                     IF st.insert = "file"
                     THEN [rows EXCEPT !.files = Append(@, st.file)] ELSE rows)

\* the rows of the log of the i-th configured repository
RowsOfRepository(i) ==
    ParsedRows(gitOutput[i].lines, repoIDs[cfgRepositories[i]], NoCommit,
               [commits |-> {}, files |-> <<>>])

\* the file changes of the repositories of `done` among the first n, in order
RECURSIVE FilesOf(_, _)
FilesOf(n, done) ==
    IF n = 0 THEN <<>>
    ELSE FilesOf(n - 1, done) \o (IF n \in done THEN RowsOfRepository(n).files ELSE <<>>)

CommitsOf(done) == UNION {RowsOfRepository(i).commits : i \in done}

AllRepositories == 1..Len(cfgRepositories)

\* the patterns component cid names for repository rid: the entries
\* "<name of rid>:<pattern>" of its path_patterns
ComponentPatterns(cid, rid) ==
    LET name == repositories[rid].name \o <<":">>
        paths == components[cid].path_patterns
    IN {SubSeq(paths[i], Len(name) + 1, Len(paths[i])) :
           i \in {j \in 1..Len(paths) : StartsWith(paths[j], name)}}

\* the file-change rows of repository rid by email that match a pattern of
\* component cid (their positions in file_changes)
MatchedRows(cid, rid, email) ==
    {i \in 1..Len(file_changes) :
        /\ \E c \in commits : /\ c.Hash = file_changes[i].CommitHash
                              /\ c.RepositoryID = rid
                              /\ c.Email = email
        /\ \E pat \in ComponentPatterns(cid, rid) :
              matchPath(file_changes[i].Filepath, pat)}

RECURSIVE SumAdditions(_)
SumAdditions(rows) ==
    IF rows = {} THEN 0
    ELSE LET i == CHOOSE x \in rows : TRUE
         IN file_changes[i].Additions + SumAdditions(rows \ {i})

RECURSIVE SumDeletions(_)
SumDeletions(rows) ==
    IF rows = {} THEN 0
    ELSE LET i == CHOOSE x \in rows : TRUE
         IN file_changes[i].Deletions + SumDeletions(rows \ {i})

\* the persisted records of one aggregation key
RecordsOf(cid, rid, email) ==
    {row \in component_contributions :
        row.component_id = cid /\ row.repository_id = rid /\ row.email = email}

AggregationKeys ==
    (1..Len(components)) \X (1..Len(repositories)) \X {c.Email : c \in commits}

\* every persisted record belongs to an aggregation key
RecordsHaveKeys ==
    \A row \in component_contributions :
        <<row.component_id, row.repository_id, row.email>> \in AggregationKeys

(***************************************************************************)
(* C1                                                                      *)
(***************************************************************************)
\* C1: for every aggregation key the persisted commit_count is the number of
\* distinct commit hashes among the matched file-change rows of the key (a
\* key without matched rows has no record); a commit with several matched
\* rows counts once.
C1_CommitCountDistinctHashes ==
    pc = "done" =>
        /\ RecordsHaveKeys
        /\ \A key \in AggregationKeys :
              LET rows == MatchedRows(key[1], key[2], key[3])
                  recs == RecordsOf(key[1], key[2], key[3])
              IN IF rows = {} THEN recs = {}
                 ELSE /\ Cardinality(recs) = 1
                      /\ \A row \in recs :
                            row.commit_count =
                                Cardinality({file_changes[i].CommitHash : i \in rows})

\* a record whose commit has more matched rows than it counts commits
C1_Witness ==
    /\ pc = "done"
    /\ \E row \in component_contributions :
          /\ row.commit_count = 1
          /\ Cardinality(MatchedRows(row.component_id, row.repository_id, row.email)) = 2

(***************************************************************************)
(* C2                                                                      *)
(***************************************************************************)
\* the run of the example: h1 (+10/-2 on a/a) and h2 (+0/-5 on a/b) by one
\* email, one component with the pattern r:a/**
C2_Example ==
    /\ cfgRepositories = <<RepoR>>
    /\ cfgComponents = <<[Name |-> CompP, Paths |-> <<RepoR \o <<":", "a", "/", "*", "*">>>>]>>
    /\ gitOutput = <<GitPrinted(
          <<HeaderLine(H1, Al, AlMail, <<"T">>), StatLine(<<"1", "0">>, <<"2">>, <<"a", "/", "a">>),
            HeaderLine(H2, Al, AlMail, <<"T">>), StatLine(<<"0">>, <<"5">>, <<"a", "/", "b">>)>>)>>

\* C2: for every aggregation key total_additions and total_deletions are the
\* sums over the matched file-change rows of the key, each row once however
\* many patterns it matches, unmatched rows adding nothing; the example run
\* gives commit_count 2, total_additions 10, total_deletions 7.
C2_TotalsOverMatchedRows ==
    pc = "done" =>
        /\ RecordsHaveKeys
        /\ \A key \in AggregationKeys :
              LET rows == MatchedRows(key[1], key[2], key[3])
                  recs == RecordsOf(key[1], key[2], key[3])
              IN IF rows = {} THEN recs = {}
                 ELSE /\ Cardinality(recs) = 1
                      /\ \A row \in recs :
                            /\ row.total_additions = SumAdditions(rows)
                            /\ row.total_deletions = SumDeletions(rows)
        /\ C2_Example =>
              component_contributions =
                  {[component_id |-> 1, repository_id |-> 1, author |-> Al,
                    email |-> AlMail, commit_count |-> 2,
                    total_additions |-> 10, total_deletions |-> 7]}

\* the example run, finished
C2_Witness ==
    /\ pc = "done"
    /\ C2_Example
    /\ \E row \in component_contributions :
          row.total_additions = 10 /\ row.total_deletions = 7

(***************************************************************************)
(* C9                                                                      *)
(***************************************************************************)
\* C9: the commits and file changes in the store are, at every moment, all
\* the rows of the logs of the repositories whose transaction has committed
\* and no row of any other; a repository whose ingestion failed at an insert
\* or at the commit leaves none of its rows, those inserted before the
\* failure included.
C9_IngestionAtomic ==
    /\ commits = CommitsOf(ingested)
    /\ file_changes = FilesOf(Len(cfgRepositories), ingested)
    /\ failure.stage = "parseGitLog" =>
          /\ failure.repo \notin ingested
          /\ \A c \in commits : c.RepositoryID # failure.repo

\* an ingestion that failed after it had inserted two rows or more
C9_Witness ==
    /\ pc = "fatal"
    /\ failure.stage = "parseGitLog"
    /\ failure.repo = 1
    /\ failure.discarded >= 2
    /\ commits = {}
    /\ file_changes = <<>>

(***************************************************************************)
(* C10                                                                     *)
(***************************************************************************)
\* the aggregation phase has started
AggregationStarted ==
    \/ pc \in {"computeComponentContributions", "writeContributions", "done"}
    \/ failure.stage \in {"computeComponentContributions", "writeContributions"}

\* C10: once the aggregation phase has started, the transaction of every
\* configured repository has committed, none is open, and the store holds
\* all the rows of every log.
C10_AggregationAfterIngestion ==
    AggregationStarted =>
        /\ ingested = AllRepositories
        /\ txCommits = {} /\ txFileChanges = <<>>
        /\ commits = CommitsOf(AllRepositories)
        /\ file_changes = FilesOf(Len(cfgRepositories), AllRepositories)

\* the aggregation about to read the rows of two repositories
C10_Witness ==
    /\ pc = "computeComponentContributions"
    /\ Len(cfgRepositories) = 2
    /\ \E c \in commits : c.RepositoryID = 1
    /\ \E c \in commits : c.RepositoryID = 2

(***************************************************************************)
(* C11                                                                     *)
(***************************************************************************)
\* the run ended at the ingestion of a repository: `git log` failed, or the
\* transaction could not be opened, or an insert or the commit failed
IngestionFailed == failure.stage \in {"processRepository", "parseGitLog"}

\* C11: once the ingestion of a repository has failed the run is over: the
\* repositories ingested are those before it and no other, the aggregation
\* is not running and has not run, and component_contributions is empty.
C11_FailedIngestionEndsRun ==
    IngestionFailed =>
        /\ pc = "fatal"
        /\ ingested = 1..(failure.repo - 1)
        /\ commits = CommitsOf(1..(failure.repo - 1))
        /\ file_changes = FilesOf(Len(cfgRepositories), 1..(failure.repo - 1))
        /\ contributions = EmptyMap
        /\ txContributions = {}
        /\ component_contributions = {}

\* the first of two repositories failed at an insert; the second has a log
\* that is never read
C11_Witness ==
    /\ failure.stage = "parseGitLog"
    /\ failure.repo = 1
    /\ Len(cfgRepositories) = 2
    /\ gitOutput[2].ok /\ gitOutput[2].lines # <<>>
    /\ ingested = {}
    /\ component_contributions = {}

(***************************************************************************)
(* C12                                                                     *)
(***************************************************************************)
\* C12: the records reach component_contributions together, at the commit
\* that ends the run; when an insert of a record or that commit fails, no
\* record is persisted and the repositories, components, commits and file
\* changes persisted before are all still there.
C12_AggregateWriteAtomic ==
    /\ pc # "done" => component_contributions = {}
    /\ failure.stage = "writeContributions" =>
          /\ pc = "fatal"
          /\ component_contributions = {}
          /\ txContributions = {}
          /\ Len(repositories) = Len(cfgRepositories)
          /\ Len(components) = Len(cfgComponents)
          /\ commits = CommitsOf(AllRepositories)
          /\ file_changes = FilesOf(Len(cfgRepositories), AllRepositories)

\* the write failed after a record had been inserted; the commits and the
\* file changes are still there
C12_Witness ==
    /\ failure.stage = "writeContributions"
    /\ failure.discarded >= 1
    /\ component_contributions = {}
    /\ commits # {}
    /\ file_changes # <<>>

(***************************************************************************)
(* C13                                                                     *)
(***************************************************************************)
\* C13 as stated: a failure in the middle of a group of writes leaves no row
\* of that group: no repository row when an insert of a repository failed,
\* no component row when an insert of a component failed, no commit or file
\* change of the repository whose ingestion failed, no record when the
\* write of the records failed.
C13_EveryWriteGroupAtomic ==
    /\ failure.stage = "insertRepository" => repositories = <<>>
    /\ failure.stage = "insertComponents" => components = <<>>
    /\ failure.stage = "parseGitLog" =>
          /\ commits = CommitsOf(ingested)
          /\ file_changes = FilesOf(Len(cfgRepositories), ingested)
    /\ failure.stage = "writeContributions" => component_contributions = {}

(***************************************************************************)
(* C14                                                                     *)
(***************************************************************************)
\* an entry has the separator; the repository name it gives
HasSeparator(entry) == \E i \in 1..Len(entry) : entry[i] = ":"

NameOfEntry(entry) ==
    SubSeq(entry, 1, (CHOOSE i \in 1..Len(entry) :
                          entry[i] = ":" /\ \A j \in 1..(i - 1) : entry[j] # ":") - 1)

ConfiguredNames == {cfgRepositories[i] : i \in 1..Len(cfgRepositories)}

\* the entry names a repository that is not configured
NamesUnknown(entry) == HasSeparator(entry) /\ NameOfEntry(entry) \notin ConfiguredNames

\* all the entries of the component name repositories that are not configured
OnlyUnknown(comp) == \A i \in 1..Len(comp.Paths) : NamesUnknown(comp.Paths[i])

\* the configured components without the entries that name unknown
\* repositories
WithoutUnknownEntries ==
    [i \in 1..Len(cfgComponents) |->
        [Name |-> cfgComponents[i].Name,
         Paths |-> SelectSeq(cfgComponents[i].Paths, LAMBDA e : ~NamesUnknown(e))]]

\* the configured components without those that name unknown repositories
\* only
WithoutUnknownComponents == SelectSeq(cfgComponents, LAMBDA c : ~OnlyUnknown(c))

\* the records the aggregation computes for comps over the store as it is
RecordsFrom(comps) ==
    LET r == scanComponents(comps, components, repoIDs, commits, file_changes, EmptyMap,
                            FALSE)
    IN {contributionRow(k, r.contributions[k]) : k \in DOMAIN r.contributions}

\* the records without the author name, which is that of the row scanned last
TotalsOf(records) ==
    {<<row.component_id, row.repository_id, row.email, row.commit_count,
       row.total_additions, row.total_deletions>> : row \in records}

\* C14: an entry that names a repository which is not configured raises no
\* error and gives no record: every record is of a repository its component
\* names, and the records of a finished run are those computed without the
\* entries naming unknown repositories, and those computed without the
\* components that name unknown repositories only.
C14_UnknownRepositorySkipped ==
    /\ pc = "computeComponentContributions" =>
          ~scanComponents(cfgComponents, components, repoIDs, commits, file_changes,
                          EmptyMap, FALSE).err
    /\ pc = "done" =>
          /\ \A row \in component_contributions :
                /\ row.repository_id \in 1..Len(repositories)
                /\ ComponentPatterns(row.component_id, row.repository_id) # {}
          /\ \A i \in 1..Len(cfgComponents) :
                OnlyUnknown(cfgComponents[i]) =>
                    \A row \in component_contributions : row.component_id # i
          /\ TotalsOf(component_contributions) =
                 TotalsOf(RecordsFrom(WithoutUnknownEntries))
          /\ TotalsOf(component_contributions) =
                 TotalsOf(RecordsFrom(WithoutUnknownComponents))

\* a finished run with a component that names unknown repositories only and
\* has no record, next to a component that has records
C14_Witness ==
    /\ pc = "done"
    /\ \E i \in 1..Len(cfgComponents) :
          /\ cfgComponents[i].Paths # <<>>
          /\ OnlyUnknown(cfgComponents[i])
          /\ \A row \in component_contributions : row.component_id # i
    /\ component_contributions # {}

(***************************************************************************)
(* C15                                                                     *)
(***************************************************************************)
\* the pattern an entry gives: the text after its first ":"
PatternOfEntry(entry) == SubSeq(entry, Len(NameOfEntry(entry)) + 2, Len(entry))

\* the patterns the entries of paths give for the repository name, in order
PatternsFor(paths, name) ==
    LET sel == SelectSeq(paths, LAMBDA e : HasSeparator(e) /\ NameOfEntry(e) = name)
    IN [i \in 1..Len(sel) |-> PatternOfEntry(sel[i])]

\* the configured components without the entries that lack the ":"
WithoutMalformedEntries ==
    [i \in 1..Len(cfgComponents) |->
        [Name |-> cfgComponents[i].Name,
         Paths |-> SelectSeq(cfgComponents[i].Paths, HasSeparator)]]

\* C15: the entries of a component that have the ":" are grouped by the text
\* before their first ":", each group holding the texts after it in the
\* order of the entries; an entry without ":" is in no group and raises no
\* error, and the records of a finished run are those computed without such
\* entries.
C15_EntryWithoutSeparatorSkipped ==
    /\ pc = "computeComponentContributions" =>
          /\ \A i \in 1..Len(cfgComponents) :
                LET paths == cfgComponents[i].Paths
                    groups == groupPatterns(paths, EmptyMap)
                IN /\ DOMAIN groups =
                          {NameOfEntry(paths[j]) :
                              j \in {k \in 1..Len(paths) : HasSeparator(paths[k])}}
                   /\ \A name \in DOMAIN groups : groups[name] = PatternsFor(paths, name)
          /\ ~scanComponents(cfgComponents, components, repoIDs, commits, file_changes,
                             EmptyMap, FALSE).err
    /\ pc = "done" =>
          TotalsOf(component_contributions) = TotalsOf(RecordsFrom(WithoutMalformedEntries))

\* a finished run with a component that has an entry without ":" before an
\* entry with two of them, "r:b:", whose pattern "b:" matched a row
C15_Witness ==
    /\ pc = "done"
    /\ \E row \in component_contributions :
          LET paths == cfgComponents[row.component_id].Paths
          IN /\ \E j \in 1..Len(paths) : ~HasSeparator(paths[j])
             /\ \E j \in 1..Len(paths) : paths[j] = RepoR \o <<":", "b", ":">>
             /\ \E k \in MatchedRows(row.component_id, row.repository_id, row.email) :
                   file_changes[k].Filepath = <<"b", ":">>

(***************************************************************************)
(* What the specification says of the lines of a log: a header line has    *)
(* the delimiter; a stat line is <additions> TAB <deletions> TAB <path>.   *)
(***************************************************************************)
IsHeaderLine(line) == \E i \in 1..Len(line) : line[i] = "NUL"

\* the fields of a line between its tabs
TabFields(line) == Split(line, TAB)

IsStatLine(line) == ~IsHeaderLine(line) /\ Len(TabFields(line)) = 3

AllDigits(s) == s # <<>> /\ \A i \in 1..Len(s) : s[i] \in DigitChars

\* a number in decimal digits, with or without a sign, and its value
IsNumber(s) ==
    \/ AllDigits(s)
    \/ s # <<>> /\ Head(s) \in {"+", "-"} /\ AllDigits(Tail(s))

NumberVal(s) ==
    IF Head(s) = "-" THEN 0 - DigitsVal(Tail(s), 0)
    ELSE IF Head(s) = "+" THEN DigitsVal(Tail(s), 0)
    ELSE DigitsVal(s, 0)

NumericStat(line) ==
    /\ IsStatLine(line)
    /\ IsNumber(TabFields(line)[1])
    /\ IsNumber(TabFields(line)[2])

BinaryStat(line) == IsStatLine(line) /\ ~NumericStat(line)

\* the line parseGitLog is at, and the one before it
LineAt(k) == gitOutput[repoIdx].lines[k]

\* parseGitLog is about to read a line
AtLine == pc = "parseGitLog" /\ lineNo <= Len(gitOutput[repoIdx].lines)

\* the step read the line and went on to the next
LineRead == pc' = "parseGitLog" /\ lineNo' = lineNo + 1

(***************************************************************************)
(* C16                                                                     *)
(***************************************************************************)
\* C16: the step that reads a stat line with a count that is not a number
\* adds no file change, ends nothing and leaves the current commit as it
\* is; and the step that reads a numeric stat line right after such a line
\* adds a file change of the current commit.
C16_BinaryStatSkipped ==
    [][AtLine =>
         /\ BinaryStat(LineAt(lineNo)) =>
               /\ LineRead
               /\ UNCHANGED <<txFileChanges, txCommits, currentCommit, failure,
                              commits, file_changes>>
         /\ (/\ lineNo > 1
             /\ BinaryStat(LineAt(lineNo - 1))
             /\ NumericStat(LineAt(lineNo))
             /\ currentCommit # NoCommit
             /\ LineRead) =>
               /\ Len(txFileChanges') = Len(txFileChanges) + 1
               /\ txFileChanges'[Len(txFileChanges')].CommitHash = currentCommit.Hash
               /\ currentCommit' = currentCommit]_vars

\* a header, a binary stat line and a numeric stat line have been read: one
\* file change, of the commit of the header
C16_Witness ==
    /\ pc = "parseGitLog"
    /\ lineNo = 4
    /\ ~IsHeaderLine(LineAt(2)) /\ BinaryStat(LineAt(2))
    /\ NumericStat(LineAt(3))
    /\ currentCommit # NoCommit
    /\ Len(txFileChanges) = 1
    /\ txFileChanges[1].CommitHash = currentCommit.Hash

(***************************************************************************)
(* C17                                                                     *)
(***************************************************************************)
\* the fields of a header line between its delimiters
NulFields(line) == Split(line, NUL)

\* a header line of fewer than 5 fields, or with a date out of the layout
MalformedHeader(line) ==
    /\ IsHeaderLine(line)
    /\ Len(NulFields(line)) < 5 \/ NulFields(line)[4] # <<"T">>

WellFormedHeader(line) == IsHeaderLine(line) /\ ~MalformedHeader(line)

\* the commit a well-formed header line of the repository at hand stands for
CommitOfHeader(line) ==
    [Hash |-> NulFields(line)[1], RepositoryID |-> repoIDs[cfgRepositories[repoIdx]],
     Author |-> NulFields(line)[2], Email |-> NulFields(line)[3]]

\* C17: the step that reads a header line of fewer than 5 fields or with a
\* date out of the layout adds no commit and ends nothing, parsing goes on
\* with the next line; and the step that reads a well-formed header line,
\* wherever it stands in the log, adds the commit of that line unless the
\* insert fails.
C17_MalformedHeaderDiscarded ==
    [][AtLine =>
         /\ MalformedHeader(LineAt(lineNo)) =>
               /\ LineRead
               /\ UNCHANGED <<txCommits, txFileChanges, commits, file_changes, failure>>
         /\ (WellFormedHeader(LineAt(lineNo)) /\ LineRead) =>
               /\ CommitOfHeader(LineAt(lineNo)) \notin txCommits
               /\ txCommits' = txCommits \cup {CommitOfHeader(LineAt(lineNo))}
               /\ UNCHANGED txFileChanges]_vars

\* a malformed header line, then a well-formed one, have been read: the one
\* commit is that of the second
C17_Witness ==
    /\ pc = "parseGitLog"
    /\ lineNo = 3
    /\ MalformedHeader(LineAt(1))
    /\ WellFormedHeader(LineAt(2))
    /\ txCommits = {CommitOfHeader(LineAt(2))}

(***************************************************************************)
(* C18                                                                     *)
(***************************************************************************)
\* the fields of a numeric stat line
AdditionsOf(line) == NumberVal(TabFields(line)[1])
DeletionsOf(line) == NumberVal(TabFields(line)[2])
PathOf(line) == TabFields(line)[3]

\* the rename arrow, and a path field that has it
Arrow == <<" ", "=", ">", " ">>
HasArrow(path) == Occurs(path, Arrow)

\* the step added a file change
FileChangeAdded == Len(txFileChanges') = Len(txFileChanges) + 1

\* C18: the step that reads a numeric stat line without a rename arrow under
\* a commit adds, unless the insert fails, a file change with the counts of
\* the line, of type A iff additions > 0 and deletions = 0, of type D iff
\* additions = 0 and deletions > 0, and of type M in every other case.
C18_ChangeTypeFromCounts ==
    [][(/\ AtLine
        /\ NumericStat(LineAt(lineNo))
        /\ ~HasArrow(PathOf(LineAt(lineNo)))
        /\ currentCommit # NoCommit
        /\ LineRead) =>
         LET adds == AdditionsOf(LineAt(lineNo))
             dels == DeletionsOf(LineAt(lineNo))
             fc == txFileChanges'[Len(txFileChanges')]
         IN /\ FileChangeAdded
            /\ fc.Additions = adds /\ fc.Deletions = dels
            /\ fc.ChangeType \in {"A", "D", "M"}
            /\ fc.ChangeType = "A" <=> (adds > 0 /\ dels = 0)
            /\ fc.ChangeType = "D" <=> (adds = 0 /\ dels > 0)]_vars

\* file changes of both counts positive and of both counts zero, of type M
C18_Witness ==
    /\ pc = "parseGitLog"
    /\ Len(txFileChanges) = 2
    /\ txFileChanges[1].Additions = 3 /\ txFileChanges[1].Deletions = 3
    /\ txFileChanges[1].ChangeType = "M"
    /\ txFileChanges[2].Additions = 0 /\ txFileChanges[2].Deletions = 0
    /\ txFileChanges[2].ChangeType = "M"

(***************************************************************************)
(* C19                                                                     *)
(***************************************************************************)
\* the text of a path field after its first rename arrow
AfterArrow(path) ==
    LET i == CHOOSE k \in 1..Len(path) :
                 /\ SubSeq(path, k, k + 3) = Arrow
                 /\ \A j \in 1..(k - 1) : SubSeq(path, j, j + 3) # Arrow
    IN SubSeq(path, i + 4, Len(path))

\* C19 as stated: the step that reads a numeric stat line under a commit
\* adds, unless the insert fails, a file change that is of type R iff the
\* path field of the line has the rename arrow, and whose filepath is then
\* the text after the arrow.
C19_RenameIffArrow ==
    [][(/\ AtLine
        /\ NumericStat(LineAt(lineNo))
        /\ currentCommit # NoCommit
        /\ LineRead) =>
         LET path == PathOf(LineAt(lineNo))
             fc == txFileChanges'[Len(txFileChanges')]
         IN /\ FileChangeAdded
            /\ fc.ChangeType = "R" <=> HasArrow(path)
            /\ HasArrow(path) => fc.Filepath = AfterArrow(path)]_vars

(***************************************************************************)
(* C20                                                                     *)
(***************************************************************************)
\* the configured components, the entries of each listed backwards
WithEntriesBackwards ==
    [i \in 1..Len(cfgComponents) |->
        [Name |-> cfgComponents[i].Name, Paths |-> Reverse(cfgComponents[i].Paths)]]

\* the totals of a second run over the store as it is: the rows scanned in
\* order, the keys of the map of patterns ranged over backwards or not, the
\* entries of the components as listed in comps
TotalsOfRun(comps, order, backwards) ==
    LET r == scanComponents(comps, components, repoIDs, commits,
                            rowsInOrder(file_changes, order), EmptyMap, backwards)
    IN TotalsOf({contributionRow(k, r.contributions[k]) : k \in DOMAIN r.contributions})

\* C20: the totals a finished run has persisted are those of any other run
\* over the same commits and file changes, whatever the order in which that
\* run scans the rows, ranges over its maps or finds the entries of a
\* component listed.
C20_TotalsDeterministic ==
    pc = "done" =>
        \A order \in ScanOrders, backwards \in BOOLEAN :
            /\ TotalsOf(component_contributions) =
                   TotalsOfRun(cfgComponents, order, backwards)
            /\ TotalsOf(component_contributions) =
                   TotalsOfRun(WithEntriesBackwards, order, backwards)

\* two finished runs over the same store that differ in the author name of a
\* record, the rows having been scanned in different orders, and agree on the
\* totals
C20_Witness ==
    /\ pc = "done"
    /\ Len(file_changes) >= 2
    /\ \E row \in component_contributions :
       \E other \in RecordsFrom(cfgComponents) :
          /\ other.component_id = row.component_id
          /\ other.repository_id = row.repository_id
          /\ other.email = row.email
          /\ other.author # row.author
          /\ other.commit_count = row.commit_count
          /\ other.total_additions = row.total_additions
          /\ other.total_deletions = row.total_deletions

(***************************************************************************)
(* C21.  The references between the tables.                                *)
(***************************************************************************)
\* the ids the rows of the repositories and of the components have
RepositoryIDs == 1..Len(repositories)
ComponentIDs == 1..Len(components)

\* every file change of files names the hash of a commit of cs, every commit
\* of cs the id of a repository
ReferencesHold(cs, files) ==
    /\ \A i \in 1..Len(files) : \E c \in cs : c.Hash = files[i].CommitHash
    /\ \A c \in cs : c.RepositoryID \in RepositoryIDs

\* C21: in every state of a run, in the middle of an ingestion and after a
\* commit or a rollback, every file change in the store names a commit in the
\* store, every commit a repository in the store, and every contribution
\* record a component and a repository in the store; the same holds of the
\* store as the open transaction sees it.
C21_ReferencesHold ==
    /\ ReferencesHold(commits, file_changes)
    /\ ReferencesHold(commits \cup txCommits, file_changes \o txFileChanges)
    /\ \A row \in component_contributions \cup txContributions :
          /\ row.component_id \in ComponentIDs
          /\ row.repository_id \in RepositoryIDs

\* the second repository failed after the first was ingested with file
\* changes, and rows of its own were rolled back
C21_Witness ==
    /\ pc = "fatal"
    /\ failure.stage = "parseGitLog"
    /\ failure.repo = 2
    /\ failure.discarded >= 2
    /\ Len(file_changes) >= 1
    /\ commits # {}

(***************************************************************************)
(* C22                                                                     *)
(***************************************************************************)
ChangeTypes == {"A", "M", "D", "R"}

WithinDomain(fc) ==
    /\ fc.Additions >= 0
    /\ fc.Deletions >= 0
    /\ fc.ChangeType \in ChangeTypes

\* C22 as stated: every file change parseGitLog has written, whatever the
\* text of the log, has additions >= 0, deletions >= 0 and a change type
\* among A, M, D and R.
C22_FileChangeWithinDomain ==
    /\ \A i \in 1..Len(txFileChanges) : WithinDomain(txFileChanges[i])
    /\ \A i \in 1..Len(file_changes) : WithinDomain(file_changes[i])


(***************************************************************************)
(* C23                                                                     *)
(***************************************************************************)
\* the header lines before line k, and the nearest of them
HeadersBefore(k) == {j \in 1..(k - 1) : IsHeaderLine(LineAt(j))}

NearestHeader(k) == CHOOSE j \in HeadersBefore(k) : \A i \in HeadersBefore(k) : i <= j

\* C23 as stated: the step that reads a line that is not a header adds a
\* file change only when the nearest header line before it is well-formed,
\* and the file change then carries the hash of that header line; a stat
\* line under a discarded header line, or before every header line, and a
\* blank line add nothing.
C23_StatScopedToNearestHeader ==
    [][(/\ AtLine
        /\ ~IsHeaderLine(LineAt(lineNo))
        /\ LineRead) =>
         IF \/ LineAt(lineNo) = <<>>
            \/ HeadersBefore(lineNo) = {}
            \/ MalformedHeader(LineAt(NearestHeader(lineNo)))
         THEN UNCHANGED txFileChanges
         ELSE FileChangeAdded =>
                 txFileChanges'[Len(txFileChanges')].CommitHash =
                     NulFields(LineAt(NearestHeader(lineNo)))[1]]_vars


(***************************************************************************)
(* C24                                                                     *)
(***************************************************************************)
BothDone == mState = "done"

\* C24 as stated: for every path and pattern over letters, "/", "." and
\* "*", the matchPath of src/main.go and the earlier matchPath return the
\* same boolean.
C24_AsStated == BothDone => (mResult <=> mOlder)

\* C24: the two are not equivalent.  For every path and pattern over
\* letters, "/", "." and "*" the earlier matchPath returns false, the
\* anchors "^" and "$" it puts around the pattern being compared with the
\* path as ordinary characters; the two return the same boolean exactly
\* when the matchPath of src/main.go returns false.
C24_OlderNeverMatches ==
    BothDone => /\ ~mOlder
                /\ (mResult <=> mOlder) <=> ~mResult

\* the path is the pattern, with "**" in it: the matchPath of src/main.go
\* returns true, the earlier one false
C24_Witness ==
    /\ BothDone
    /\ mPath = mPattern
    /\ HasDoubleStar(mPattern)
    /\ mResult
    /\ ~mOlder


(***************************************************************************)
(* C25                                                                     *)
(***************************************************************************)
NoWildcard(s) == \A i \in 1..Len(s) : s[i] \notin {"*", "?", "["}

\* the "/"-separated segments of a path
Segments(s) == Split(s, <<"/">>)

\* p is a whole leading (s a whole trailing) sequence of segments of path
LeadingSegments(p, path) ==
    /\ Len(Segments(p)) <= Len(Segments(path))
    /\ SubSeq(Segments(path), 1, Len(Segments(p))) = Segments(p)

TrailingSegments(t, path) ==
    /\ Len(Segments(t)) <= Len(Segments(path))
    /\ SubSeq(Segments(path), Len(Segments(path)) - Len(Segments(t)) + 1,
              Len(Segments(path))) = Segments(t)

\* the three forms P/**, **/S and P/**/S, P and S non-empty without
\* wildcards
TrailingForm(pattern) ==
    /\ HasDoubleStar(pattern)
    /\ AfterFirst(pattern) = <<>>
    /\ SpecPrefix(pattern) # <<>>
    /\ BeforeFirst(pattern) = SpecPrefix(pattern) \o <<"/">>
    /\ NoWildcard(SpecPrefix(pattern))

LeadingForm(pattern) ==
    /\ HasDoubleStar(pattern)
    /\ BeforeFirst(pattern) = <<>>
    /\ SpecSuffix(pattern) # <<>>
    /\ AfterFirst(pattern) = <<"/">> \o SpecSuffix(pattern)
    /\ NoWildcard(SpecSuffix(pattern))

MiddleForm(pattern) ==
    /\ HasDoubleStar(pattern)
    /\ SpecPrefix(pattern) # <<>>
    /\ SpecSuffix(pattern) # <<>>
    /\ BeforeFirst(pattern) = SpecPrefix(pattern) \o <<"/">>
    /\ AfterFirst(pattern) = <<"/">> \o SpecSuffix(pattern)
    /\ NoWildcard(SpecPrefix(pattern))
    /\ NoWildcard(SpecSuffix(pattern))

\* a path other than the pattern has been matched
MatchedOther == MatchDone /\ mResult /\ mPath # mPattern

\* C25 as stated: when a pattern of one of the three forms matches a path
\* other than itself, P is a whole leading sequence of segments of the path
\* and S a whole trailing one.
C25_AsStated ==
    /\ (MatchedOther /\ TrailingForm(mPattern)) =>
          LeadingSegments(SpecPrefix(mPattern), mPath)
    /\ (MatchedOther /\ LeadingForm(mPattern)) =>
          TrailingSegments(SpecSuffix(mPattern), mPath)
    /\ (MatchedOther /\ MiddleForm(mPattern)) =>
          /\ LeadingSegments(SpecPrefix(mPattern), mPath)
          /\ TrailingSegments(SpecSuffix(mPattern), mPath)

\* C25: the segments are respected in the form P/** only, where a matched
\* path other than the pattern has P as a whole leading sequence of
\* segments.  In the other two forms the texts are compared: **/S matches
\* exactly the paths that end with the text S or have "/" + S somewhere,
\* and P/**/S exactly the paths that start with the text P and end with the
\* text S, wherever the segments of the path begin and end.
C25_SegmentsInTrailingFormOnly ==
    /\ (MatchedOther /\ TrailingForm(mPattern)) =>
          LeadingSegments(SpecPrefix(mPattern), mPath)
    /\ (MatchDone /\ TrailingForm(mPattern)
          /\ LeadingSegments(SpecPrefix(mPattern), mPath)) => mResult
    /\ (MatchDone /\ LeadingForm(mPattern) /\ mPath # mPattern) =>
          (mResult <=> \/ EndsWith(mPath, SpecSuffix(mPattern))
                       \/ Occurs(mPath, <<"/">> \o SpecSuffix(mPattern)))
    /\ (MatchDone /\ MiddleForm(mPattern) /\ mPath # mPattern) =>
          (mResult <=> /\ StartsWith(mPath, SpecPrefix(mPattern))
                       /\ EndsWith(mPath, SpecSuffix(mPattern)))

\* "a/**/a" has matched "aa/a", whose first segment is not "a"
C25_Witness ==
    /\ MatchedOther
    /\ MiddleForm(mPattern)
    /\ ~LeadingSegments(SpecPrefix(mPattern), mPath)
    /\ TrailingSegments(SpecSuffix(mPattern), mPath)


(***************************************************************************)
(* C26                                                                     *)
(***************************************************************************)
HasStar(s) == \E i \in 1..Len(s) : s[i] = "*"

\* the pattern has a "**" and a star besides it
StarBesideDoubleStar(pattern) ==
    /\ HasDoubleStar(pattern)
    /\ HasStar(BeforeFirst(pattern)) \/ HasStar(AfterFirst(pattern))

\* C26: in a pattern with "**" the text before and after the "**" is
\* compared as it is written: a matched path has the text of the prefix and
\* that of the suffix in it, "*", "?" and "[" included, and so a path
\* without the character "*" is matched by no pattern that has a star
\* besides its "**".
C26_LiteralBesideDoubleStar ==
    /\ (MatchDone /\ HasDoubleStar(mPattern) /\ mResult) =>
          /\ Occurs(mPath, SpecPrefix(mPattern))
          /\ Occurs(mPath, SpecSuffix(mPattern))
    /\ (MatchDone /\ StarBesideDoubleStar(mPattern) /\ ~HasStar(mPath)) => ~mResult

\* "**/*" has not matched "a/a"
C26_Witness ==
    /\ MatchDone
    /\ mPattern = <<"*", "*", "/", "*">>
    /\ mPath = <<"a", "/", "a">>
    /\ StarBesideDoubleStar(mPattern)
    /\ ~mResult


(***************************************************************************)
(* C27                                                                     *)
(***************************************************************************)
\* C27 as stated: the step that reads a numeric stat line without a rename
\* arrow under a commit adds, unless the insert fails, a file change whose
\* filepath is the whole path field of the line, the text after the second
\* tab, spaces included.
C27_FilepathIsPathField ==
    [][(/\ AtLine
        /\ NumericStat(LineAt(lineNo))
        /\ ~HasArrow(PathOf(LineAt(lineNo)))
        /\ currentCommit # NoCommit
        /\ LineRead) =>
         /\ FileChangeAdded
         /\ txFileChanges'[Len(txFileChanges')].Filepath = PathOf(LineAt(lineNo))]_vars


=============================================================================
